---- MODULE Spec2Model ----
(***************************************************************************)
(* Relational-geometry layer of planar_geometry: segment/line/circle       *)
(* intersection, point containment, closest point and convex hull.         *)
(*                                                                         *)
(* Every operation is a function of its arguments.  A behaviour is one     *)
(* call: Init draws the operation and its arguments, the action named      *)
(* after the operation evaluates it and stores the returned value (or the  *)
(* raised exception) in ret.                                               *)
(*                                                                         *)
(* Python floats are modelled as exact rationals [n, d] (d > 0, lowest     *)
(* terms); a tolerance 1e-k is the exponent k, compared without forming    *)
(* 10^k times anything.                                                    *)
(***************************************************************************)
EXTENDS Integers, Sequences, FiniteSets

VARIABLES op, args, ret, pc

vars == <<op, args, ret, pc>>

(***************************************************************************)
(* Bounds of the input sets.                                               *)
(***************************************************************************)
MaxCoord == 2

Coords == 0..MaxCoord

(***************************************************************************)
(* Float arithmetic, exact.                                                *)
(***************************************************************************)
Abs(i) == IF i < 0 THEN -i ELSE i

RECURSIVE Gcd(_, _)
Gcd(a, b) == IF b = 0 THEN a ELSE Gcd(b, a % b)

Rat(n, d) ==
    LET s == IF d < 0 THEN -1 ELSE 1
        g == Gcd(Abs(n), Abs(d))
    IN  [n |-> (s * n) \div g, d |-> (s * d) \div g]

F(i) == [n |-> i, d |-> 1]

Zero == F(0)

One == F(1)

RAdd(a, b) == IF a.d = 1 /\ b.d = 1 THEN [n |-> a.n + b.n, d |-> 1]
              ELSE Rat(a.n * b.d + b.n * a.d, a.d * b.d)

RSub(a, b) == IF a.d = 1 /\ b.d = 1 THEN [n |-> a.n - b.n, d |-> 1]
              ELSE Rat(a.n * b.d - b.n * a.d, a.d * b.d)

RMul(a, b) == IF a.d = 1 /\ b.d = 1 THEN [n |-> a.n * b.n, d |-> 1]
              ELSE Rat(a.n * b.n, a.d * b.d)

RDiv(a, b) == Rat(a.n * b.d, a.d * b.n)

RNeg(a) == [n |-> -a.n, d |-> a.d]

RAbs(a) == [n |-> Abs(a.n), d |-> a.d]

RLt(a, b) == a.n * b.d < b.n * a.d

RLe(a, b) == a.n * b.d <= b.n * a.d

RMin(a, b) == IF RLt(b, a) THEN b ELSE a

RMax(a, b) == IF RLt(a, b) THEN b ELSE a

\* floor(d / 10^e)
RECURSIVE Pow10Floor(_, _)
Pow10Floor(d, e) == IF e = 0 \/ d = 0 THEN d ELSE Pow10Floor(d \div 10, e - 1)

\* q < 1e-e
LtTol(q, e) == q.n <= Pow10Floor(q.d - 1, e)

\* q > 1e-e
GtTol(q, e) == q.n > Pow10Floor(q.d, e)

\* abs(q) < 1e-e
AbsLtTol(q, e) == LtTol(RAbs(q), e)

(***************************************************************************)
(* Point2D, LineSegment.                                                   *)
(***************************************************************************)
Point2D(x, y) == [x |-> x, y |-> y]

Pt(i, j) == Point2D(F(i), F(j))

LineSegment(start, end) == [start |-> start, end |-> end]

\* Point2D.add
PointAdd(p, dx, dy) == Point2D(RAdd(p.x, dx), RAdd(p.y, dy))

\* Point2D.equals
PointEquals(p, q, tolerance) ==
    AbsLtTol(RSub(p.x, q.x), tolerance) /\ AbsLtTol(RSub(p.y, q.y), tolerance)

\* the square of Point2D.distance_to
DistSqOf(p, q) ==
    RAdd(RMul(RSub(p.x, q.x), RSub(p.x, q.x)), RMul(RSub(p.y, q.y), RSub(p.y, q.y)))

GridPoints == {Pt(i, j) : i \in Coords, j \in Coords}

GridSegments == {LineSegment(a, b) : a \in GridPoints, b \in GridPoints}

(***************************************************************************)
(* Returned values.                                                        *)
(***************************************************************************)
Pending == [kind |-> "pending"]

None == [kind |-> "None"]

RetPoint(p) == [kind |-> "Point2D", p |-> p]

RetPoints(ps) == [kind |-> "list", pts |-> ps]

RetStr(s) == [kind |-> "str", s |-> s]

RetBool(b) == [kind |-> "bool", b |-> b]

Raise(exc) == [kind |-> "raise", exc |-> exc]

(***************************************************************************)
(* geometry_utils.line_segment_intersection                                *)
(***************************************************************************)
SegTolerance == 9

\* -tolerance <= t <= 1.0 + tolerance
InUnitRange(t, tolerance) ==
    /\ ~GtTol(RNeg(t), tolerance)
    /\ ~GtTol(RSub(t, One), tolerance)

\* the denominator of Cramer's rule
SegDenom(s1, s2) ==
    RSub(RMul(RSub(s1.start.x, s1.end.x), RSub(s2.start.y, s2.end.y)),
         RMul(RSub(s1.start.y, s1.end.y), RSub(s2.start.x, s2.end.x)))

\* t, the parameter along s1
SegParamT(s1, s2) ==
    RDiv(RSub(RMul(RSub(s1.start.x, s2.start.x), RSub(s2.start.y, s2.end.y)),
              RMul(RSub(s1.start.y, s2.start.y), RSub(s2.start.x, s2.end.x))),
         SegDenom(s1, s2))

\* s, the parameter along s2
SegParamS(s1, s2) ==
    RDiv(RSub(RMul(RSub(s1.start.x, s2.start.x), RSub(s1.start.y, s1.end.y)),
              RMul(RSub(s1.start.y, s2.start.y), RSub(s1.start.x, s1.end.x))),
         SegDenom(s1, s2))

\* a version that tests only t against [0,1]
line_segment_intersection_t_only(s1, s2, tolerance) ==
    IF AbsLtTol(SegDenom(s1, s2), tolerance)
    THEN None
    ELSE LET t == SegParamT(s1, s2)
         IN  IF InUnitRange(t, tolerance)
             THEN RetPoint(Point2D(
                      RAdd(s1.start.x, RMul(t, RSub(s1.end.x, s1.start.x))),
                      RAdd(s1.start.y, RMul(t, RSub(s1.end.y, s1.start.y)))))
             ELSE None

\* a version without the parallel test: the division raises
line_segment_intersection_no_parallel_test(s1, s2, tolerance) ==
    IF SegDenom(s1, s2) = Zero
    THEN Raise("ZeroDivisionError")
    ELSE LET t == SegParamT(s1, s2)
             s == SegParamS(s1, s2)
         IN  IF InUnitRange(t, tolerance) /\ InUnitRange(s, tolerance)
             THEN RetPoint(Point2D(
                      RAdd(s1.start.x, RMul(t, RSub(s1.end.x, s1.start.x))),
                      RAdd(s1.start.y, RMul(t, RSub(s1.end.y, s1.start.y)))))
             ELSE None

\* a version that evaluates the point with s along s1
line_segment_intersection_wrong_param(s1, s2, tolerance) ==
    IF AbsLtTol(SegDenom(s1, s2), tolerance)
    THEN None
    ELSE LET t == SegParamT(s1, s2)
             s == SegParamS(s1, s2)
         IN  IF InUnitRange(t, tolerance) /\ InUnitRange(s, tolerance)
             THEN RetPoint(Point2D(
                      RAdd(s1.start.x, RMul(s, RSub(s1.end.x, s1.start.x))),
                      RAdd(s1.start.y, RMul(s, RSub(s1.end.y, s1.start.y)))))
             ELSE None

line_segment_intersection(s1, s2, tolerance) ==
    IF AbsLtTol(SegDenom(s1, s2), tolerance)
    THEN None
    ELSE LET t == SegParamT(s1, s2)
             s == SegParamS(s1, s2)
         IN  IF InUnitRange(t, tolerance) /\ InUnitRange(s, tolerance)
             THEN RetPoint(Point2D(
                      RAdd(s1.start.x, RMul(t, RSub(s1.end.x, s1.start.x))),
                      RAdd(s1.start.y, RMul(t, RSub(s1.end.y, s1.start.y)))))
             ELSE None

(***************************************************************************)
(* LineSegment.get_parameter, LineSegment.get_closest_point                *)
(***************************************************************************)
DegenerateLenSqExp == 15

get_parameter(seg, point) ==
    LET dx == RSub(seg.end.x, seg.start.x)
        dy == RSub(seg.end.y, seg.start.y)
        len_sq == RAdd(RMul(dx, dx), RMul(dy, dy))
    IN  IF LtTol(len_sq, DegenerateLenSqExp)
        THEN Zero
        ELSE RDiv(RAdd(RMul(RSub(point.x, seg.start.x), dx),
                       RMul(RSub(point.y, seg.start.y), dy)),
                  len_sq)

\* a version that does not clamp t
get_closest_point_unclamped(seg, point) ==
    LET t == get_parameter(seg, point)
    IN  PointAdd(seg.start, RMul(t, RSub(seg.end.x, seg.start.x)),
                            RMul(t, RSub(seg.end.y, seg.start.y)))

get_closest_point(seg, point) ==
    LET t == RMax(Zero, RMin(One, get_parameter(seg, point)))
    IN  PointAdd(seg.start, RMul(t, RSub(seg.end.x, seg.start.x)),
                            RMul(t, RSub(seg.end.y, seg.start.y)))

(***************************************************************************)
(* Calls on segments.                                                      *)
(***************************************************************************)
InitSegment ==
    /\ pc = "call"
    /\ ret = Pending
    /\ \/ /\ op = "line_segment_intersection"
          /\ args \in [s1 : GridSegments, s2 : GridSegments]
       \/ /\ op = "get_closest_point"
          /\ args \in [seg : GridSegments, point : GridPoints]

LineSegmentIntersection ==
    /\ pc = "call"
    /\ op = "line_segment_intersection"
    /\ ret' = line_segment_intersection(args.s1, args.s2, SegTolerance)
    /\ pc' = "done"
    /\ UNCHANGED <<op, args>>

GetClosestPoint ==
    /\ pc = "call"
    /\ op = "get_closest_point"
    /\ ret' = RetPoint(get_closest_point(args.seg, args.point))
    /\ pc' = "done"
    /\ UNCHANGED <<op, args>>

NextSegment == LineSegmentIntersection \/ GetClosestPoint

SpecSegment == InitSegment /\ [][NextSegment]_vars

(***************************************************************************)
(* math.sqrt.  The root of a rational is a + b * sqrt(k), k a square-free  *)
(* integer: [a, b, k], with b = 0 and k = 1 when the root is rational.     *)
(***************************************************************************)
\* the largest s >= from with s * s dividing m, or 1
RECURSIVE SquarePart(_, _)
SquarePart(m, from) ==
    IF from * from > m
    THEN 1
    ELSE LET larger == SquarePart(m, from + 1)
         IN  IF larger > 1 THEN larger
             ELSE IF m % (from * from) = 0 THEN from ELSE 1

Surd(a, b, k) == IF b = Zero \/ k = 1
                 THEN [a |-> RAdd(a, b), b |-> Zero, k |-> 1]
                 ELSE [a |-> a, b |-> b, k |-> k]

SurdOf(q) == [a |-> q, b |-> Zero, k |-> 1]

\* math.sqrt(q), q >= 0
Sqrt(q) ==
    IF q.n = 0
    THEN SurdOf(Zero)
    ELSE LET sn == SquarePart(q.n, 1)
             sd == SquarePart(q.d, 1)
             kn == q.n \div (sn * sn)
             kd == q.d \div (sd * sd)
         IN  IF kn * kd = 1
             THEN SurdOf(Rat(sn, sd))
             ELSE [a |-> Zero, b |-> Rat(sn, sd * kd), k |-> kn * kd]

\* the float of a root that is rational
RatOf(u) == CASE u.b = Zero -> u.a

IsRational(u) == u.b = Zero

SurdK(u, v) == IF u.b = Zero THEN v.k ELSE u.k

SAdd(u, v) == Surd(RAdd(u.a, v.a), RAdd(u.b, v.b), SurdK(u, v))

SSub(u, v) == Surd(RSub(u.a, v.a), RSub(u.b, v.b), SurdK(u, v))

SMul(u, v) ==
    Surd(RAdd(RMul(u.a, v.a), RMul(RMul(u.b, v.b), F(SurdK(u, v)))),
         RAdd(RMul(u.a, v.b), RMul(u.b, v.a)),
         SurdK(u, v))

RSign(q) == IF q.n > 0 THEN 1 ELSE IF q.n < 0 THEN -1 ELSE 0

\* the sign of a + b * sqrt(k)
SSign(u) ==
    IF u.b = Zero THEN RSign(u.a)
    ELSE IF u.a = Zero THEN RSign(u.b)
    ELSE IF RSign(u.a) = RSign(u.b) THEN RSign(u.a)
    ELSE IF RLt(RMul(RMul(u.b, u.b), F(u.k)), RMul(u.a, u.a))
         THEN RSign(u.a) ELSE RSign(u.b)

SLt(u, v) == SSign(SSub(u, v)) < 0

(***************************************************************************)
(* Vector2D, Line.                                                         *)
(***************************************************************************)
Vector2D(x, y) == [x |-> x, y |-> y]

\* Vector2D.length
VectorLength(v) == Sqrt(RAdd(RMul(v.x, v.x), RMul(v.y, v.y)))

\* Vector2D.normalized
normalized(v) ==
    LET length == RatOf(VectorLength(v))
    IN  IF RLt(Zero, length)
        THEN Vector2D(RDiv(v.x, length), RDiv(v.y, length))
        ELSE Vector2D(Zero, Zero)

\* Vector2D.perpendicular
perpendicular(v) == Vector2D(RNeg(v.y), v.x)

\* Line.__init__
Line(point, direction) == [point |-> point, direction |-> normalized(direction)]

MaxDir == 4

\* directions of rational length, the zero vector among them
Directions ==
    {v \in {Vector2D(F(i), F(j)) : i \in -MaxDir..MaxDir, j \in -MaxDir..MaxDir} :
        IsRational(VectorLength(v))}

(***************************************************************************)
(* geometry_utils.line_intersection, Line.get_intersection                 *)
(***************************************************************************)
LineTolerance == 9

\* a version that returns None for parallel lines
line_intersection_none_on_parallel(l1, l2, tolerance) ==
    LET x1 == l1.point.x
        y1 == l1.point.y
        x2 == RAdd(x1, l1.direction.x)
        y2 == RAdd(y1, l1.direction.y)
        x3 == l2.point.x
        y3 == l2.point.y
        x4 == RAdd(x3, l2.direction.x)
        y4 == RAdd(y3, l2.direction.y)
        denom == RSub(RMul(RSub(x1, x2), RSub(y3, y4)), RMul(RSub(y1, y2), RSub(x3, x4)))
    IN  IF AbsLtTol(denom, tolerance)
        THEN None
        ELSE LET t == RDiv(RSub(RMul(RSub(x1, x3), RSub(y3, y4)),
                                RMul(RSub(y1, y3), RSub(x3, x4))), denom)
             IN  RetPoint(Point2D(RAdd(x1, RMul(t, RSub(x2, x1))),
                                  RAdd(y1, RMul(t, RSub(y2, y1)))))

line_intersection(l1, l2, tolerance) ==
    LET x1 == l1.point.x
        y1 == l1.point.y
        x2 == RAdd(x1, l1.direction.x)
        y2 == RAdd(y1, l1.direction.y)
        x3 == l2.point.x
        y3 == l2.point.y
        x4 == RAdd(x3, l2.direction.x)
        y4 == RAdd(y3, l2.direction.y)
        denom == RSub(RMul(RSub(x1, x2), RSub(y3, y4)), RMul(RSub(y1, y2), RSub(x3, x4)))
    IN  IF AbsLtTol(denom, tolerance)
        THEN Raise("ValueError")
        ELSE LET t == RDiv(RSub(RMul(RSub(x1, x3), RSub(y3, y4)),
                                RMul(RSub(y1, y3), RSub(x3, x4))), denom)
             IN  RetPoint(Point2D(RAdd(x1, RMul(t, RSub(x2, x1))),
                                  RAdd(y1, RMul(t, RSub(y2, y1)))))

\* Line.get_intersection
get_intersection(self, other, tolerance) ==
    LET d1_x == self.direction.x
        d1_y == self.direction.y
        d2_x == other.direction.x
        d2_y == other.direction.y
        cross == RSub(RMul(d1_x, d2_y), RMul(d1_y, d2_x))
    IN  IF AbsLtTol(cross, tolerance)
        THEN Raise("ValueError")
        ELSE LET dx == RSub(other.point.x, self.point.x)
                 dy == RSub(other.point.y, self.point.y)
                 t == RDiv(RSub(RMul(dx, d2_y), RMul(dy, d2_x)), cross)
             IN  RetPoint(Point2D(RAdd(self.point.x, RMul(t, d1_x)),
                                  RAdd(self.point.y, RMul(t, d1_y))))

(***************************************************************************)
(* Calls on lines.  args holds the constructor arguments of both lines.    *)
(***************************************************************************)
MaxAnchor == 1

Anchors == {Pt(i, j) : i \in 0..MaxAnchor, j \in 0..MaxAnchor}

LineArgs == [p1 : Anchors, d1 : Directions, p2 : Anchors, d2 : Directions]

InitLine ==
    /\ pc = "call"
    /\ ret = Pending
    /\ op \in {"line_intersection", "Line.get_intersection"}
    /\ args \in LineArgs

LineIntersection ==
    /\ pc = "call"
    /\ op = "line_intersection"
    /\ ret' = line_intersection(Line(args.p1, args.d1), Line(args.p2, args.d2),
                                LineTolerance)
    /\ pc' = "done"
    /\ UNCHANGED <<op, args>>

LineGetIntersection ==
    /\ pc = "call"
    /\ op = "Line.get_intersection"
    /\ ret' = get_intersection(Line(args.p1, args.d1), Line(args.p2, args.d2),
                               LineTolerance)
    /\ pc' = "done"
    /\ UNCHANGED <<op, args>>

NextLine == LineIntersection \/ LineGetIntersection

SpecLine == InitLine /\ [][NextLine]_vars

(***************************************************************************)
(* Circle; points whose coordinates hold a square root.                    *)
(***************************************************************************)
\* Circle.__init__, radius >= 0
Circle(center, radius) == [center |-> center, radius |-> radius]

\* Point2D(x, y) with x, y computed from a root
SPoint(x, y) == [x |-> x, y |-> y]

SPointOf(p) == SPoint(SurdOf(p.x), SurdOf(p.y))

\* key=lambda p: (p.x, p.y), compared as tuples
KeyLess(p, q) == SLt(p.x, q.x) \/ (p.x = q.x /\ SLt(p.y, q.y))

\* [p1, p2].sort(key=...), stable
SortPair(p1, p2) == IF KeyLess(p2, p1) THEN <<p2, p1>> ELSE <<p1, p2>>

\* Line.get_distance_to_point, point_to_line_distance
point_to_line_distance(point, line) ==
    LET dx == RSub(point.x, line.point.x)
        dy == RSub(point.y, line.point.y)
    IN  RAbs(RSub(RMul(dx, line.direction.y), RMul(dy, line.direction.x)))

\* Line.get_closest_point
line_get_closest_point(line, point) ==
    LET dx == RSub(point.x, line.point.x)
        dy == RSub(point.y, line.point.y)
        t == RAdd(RMul(dx, line.direction.x), RMul(dy, line.direction.y))
    IN  Point2D(RAdd(line.point.x, RMul(t, line.direction.x)),
                RAdd(line.point.y, RMul(t, line.direction.y)))

(***************************************************************************)
(* intersection_ops.circle_line_intersection                               *)
(***************************************************************************)
CircleTolerance == 10

\* [p1, p2], sorted: projection -/+ offset along the line
CircleLineChord(circle, line, tolerance) ==
    LET direction == line.direction
        dist == point_to_line_distance(circle.center, line)
        dist_sq == RMul(dist, dist)
        radius_sq == RMul(circle.radius, circle.radius)
        projection == line_get_closest_point(line, circle.center)
        unit == normalized(direction)
        offset_dist == IF LtTol(dist_sq, tolerance)
                       THEN SurdOf(circle.radius)
                       ELSE Sqrt(RMax(Zero, RSub(radius_sq, dist_sq)))
        offset_x == SMul(SurdOf(unit.x), offset_dist)
        offset_y == SMul(SurdOf(unit.y), offset_dist)
        p1 == SPoint(SSub(SurdOf(projection.x), offset_x),
                     SSub(SurdOf(projection.y), offset_y))
        p2 == SPoint(SAdd(SurdOf(projection.x), offset_x),
                     SAdd(SurdOf(projection.y), offset_y))
    IN  SortPair(p1, p2)

\* a version without the tangent case
circle_line_intersection_no_tangent(circle, line, tolerance) ==
    LET dist == point_to_line_distance(circle.center, line)
        dist_sq == RMul(dist, dist)
        radius_sq == RMul(circle.radius, circle.radius)
    IN  IF GtTol(RSub(dist_sq, radius_sq), tolerance)
        THEN RetPoints(<<>>)
        ELSE RetPoints(CircleLineChord(circle, line, tolerance))

circle_line_intersection(circle, line, tolerance) ==
    LET dist == point_to_line_distance(circle.center, line)
        dist_sq == RMul(dist, dist)
        radius_sq == RMul(circle.radius, circle.radius)
        projection == line_get_closest_point(line, circle.center)
    IN  IF GtTol(RSub(dist_sq, radius_sq), tolerance)
        THEN RetPoints(<<>>)
        ELSE IF AbsLtTol(RSub(dist_sq, radius_sq), tolerance)
        THEN RetPoints(<<SPointOf(projection)>>)
        ELSE RetPoints(CircleLineChord(circle, line, tolerance))

(***************************************************************************)
(* intersection_ops.circles_intersection                                   *)
(***************************************************************************)
\* c + direction * r
AlongDirection(c, toward, r) ==
    LET direction == normalized(Vector2D(RSub(toward.x, c.x), RSub(toward.y, c.y)))
    IN  SPointOf(Point2D(RAdd(c.x, RMul(direction.x, r)),
                         RAdd(c.y, RMul(direction.y, r))))

\* the two points of the radical line
CirclesChord(circle1, circle2) ==
    LET c1 == circle1.center
        c2 == circle2.center
        r1 == circle1.radius
        r2 == circle2.radius
        d == RatOf(Sqrt(DistSqOf(c1, c2)))
        d_sq == RMul(d, d)
        a == RDiv(RSub(RAdd(d_sq, RMul(r1, r1)), RMul(r2, r2)), RMul(F(2), d))
        h == Sqrt(RMax(Zero, RSub(RMul(r1, r1), RMul(a, a))))
        direction == normalized(Vector2D(RSub(c2.x, c1.x), RSub(c2.y, c1.y)))
        px == RAdd(c1.x, RMul(direction.x, a))
        py == RAdd(c1.y, RMul(direction.y, a))
        perp == normalized(perpendicular(direction))
        hx == SMul(SurdOf(perp.x), h)
        hy == SMul(SurdOf(perp.y), h)
    IN  <<SPoint(SAdd(SurdOf(px), hx), SAdd(SurdOf(py), hy)),
          SPoint(SSub(SurdOf(px), hx), SSub(SurdOf(py), hy))>>

\* a version that returns an empty list for circles that do not meet
circles_intersection_empty_list(circle1, circle2, tolerance) ==
    LET c1 == circle1.center
        c2 == circle2.center
        r1 == circle1.radius
        r2 == circle2.radius
        d == RatOf(Sqrt(DistSqOf(c1, c2)))
    IN  IF LtTol(d, tolerance)
        THEN RetStr("concentric")
        ELSE IF AbsLtTol(RSub(d, RAdd(r1, r2)), tolerance)
        THEN RetPoints(<<AlongDirection(c1, c2, r1)>>)
        ELSE IF AbsLtTol(RSub(d, RAbs(RSub(r1, r2))), tolerance)
        THEN IF RLt(r2, r1)
             THEN RetPoints(<<AlongDirection(c1, c2, r1)>>)
             ELSE RetPoints(<<AlongDirection(c2, c1, r2)>>)
        ELSE IF \/ GtTol(RSub(d, RAdd(r1, r2)), tolerance)
                \/ GtTol(RSub(RAbs(RSub(r1, r2)), d), tolerance)
        THEN RetPoints(<<>>)
        ELSE RetPoints(CirclesChord(circle1, circle2))

circles_intersection(circle1, circle2, tolerance) ==
    LET c1 == circle1.center
        c2 == circle2.center
        r1 == circle1.radius
        r2 == circle2.radius
        d == RatOf(Sqrt(DistSqOf(c1, c2)))
    IN  IF LtTol(d, tolerance)
        THEN RetStr("concentric")
        ELSE IF AbsLtTol(RSub(d, RAdd(r1, r2)), tolerance)
        THEN RetPoints(<<AlongDirection(c1, c2, r1)>>)
        ELSE IF AbsLtTol(RSub(d, RAbs(RSub(r1, r2))), tolerance)
        THEN IF RLt(r2, r1)
             THEN RetPoints(<<AlongDirection(c1, c2, r1)>>)
             ELSE RetPoints(<<AlongDirection(c2, c1, r2)>>)
        ELSE IF \/ GtTol(RSub(d, RAdd(r1, r2)), tolerance)
                \/ GtTol(RSub(RAbs(RSub(r1, r2)), d), tolerance)
        THEN RetStr("no_intersection")
        ELSE RetPoints(CirclesChord(circle1, circle2))

(***************************************************************************)
(* Calls on circles.                                                       *)
(***************************************************************************)
MaxRadius == 5

MaxCenter == 4

Radii == {F(r) : r \in 0..MaxRadius}

Centers == {Pt(i, j) : i \in 0..MaxCenter, j \in 0..MaxCenter}

\* centre (0,0), radius 5, the line through (-10,0) with direction (1,0)
CircleLineExample ==
    [center |-> Pt(0, 0), radius |-> F(5), p |-> Pt(-10, 0), d |-> Vector2D(F(1), F(0))]

CircleLineArgs ==
    [center : GridPoints, radius : Radii, p : Anchors, d : Directions]
        \cup {CircleLineExample}

\* pairs of circles whose centres are a rational distance apart
CirclesArgs ==
    {a \in [c1 : Centers, r1 : Radii, c2 : Centers, r2 : Radii] :
        IsRational(Sqrt(DistSqOf(a.c1, a.c2)))}

InitCircle ==
    /\ pc = "call"
    /\ ret = Pending
    /\ \/ op = "circle_line_intersection" /\ args \in CircleLineArgs
       \/ op = "circles_intersection" /\ args \in CirclesArgs

CircleLineIntersection ==
    /\ pc = "call"
    /\ op = "circle_line_intersection"
    /\ ret' = circle_line_intersection(Circle(args.center, args.radius),
                                       Line(args.p, args.d), CircleTolerance)
    /\ pc' = "done"
    /\ UNCHANGED <<op, args>>

CirclesIntersection ==
    /\ pc = "call"
    /\ op = "circles_intersection"
    /\ ret' = circles_intersection(Circle(args.c1, args.r1), Circle(args.c2, args.r2),
                                   CircleTolerance)
    /\ pc' = "done"
    /\ UNCHANGED <<op, args>>

NextCircle == CircleLineIntersection \/ CirclesIntersection

SpecCircle == InitCircle /\ [][NextCircle]_vars

(***************************************************************************)
(* Polygon.                                                                *)
(***************************************************************************)
PolygonTolerance == 6

MinVertices == 3

RetPolygon(vertices) == [kind |-> "Polygon", vertices |-> vertices]

\* Polygon.__init__
Polygon(vertices) ==
    IF Len(vertices) < MinVertices THEN Raise("ValueError") ELSE RetPolygon(vertices)

\* Polygon.get_edge, index from 0
get_edge(vertices, index) ==
    LET n == Len(vertices)
        idx == index % n
    IN  <<vertices[idx + 1], vertices[((idx + 1) % n) + 1]>>

\* Point2D.distance_to
distance_to(p, q) == Sqrt(DistSqOf(p, q))

\* u < 1e-e for a root u >= 0
RootLtTol(u, e) ==
    IF IsRational(u)
    THEN LtTol(u.a, e)
    ELSE LtTol(RMul(RMul(u.b, u.b), F(u.k)), 2 * e)

\* LineSegment.contains_point
segment_contains_point(seg, point, tolerance) ==
    LET t == get_parameter(seg, point)
    IN  /\ RLe(Zero, t)
        /\ RLe(t, One)
        /\ RootLtTol(distance_to(point, get_closest_point(seg, point)), tolerance)

\* the edge test of the ray casting loop, i and j from 0
RayCrossesEdge(vertices, i, j, point) ==
    LET xi == vertices[i + 1].x
        yi == vertices[i + 1].y
        xj == vertices[j + 1].x
        yj == vertices[j + 1].y
    IN  /\ RLt(point.y, yi) # RLt(point.y, yj)
        /\ RLt(point.x,
               RAdd(RDiv(RMul(RSub(xj, xi), RSub(point.y, yi)), RSub(yj, yi)), xi))

\* inside after the ray casting loop: an odd number of edges toggled it
RayCastInside(vertices, point) ==
    LET n == Len(vertices)
        toggles == {i \in 0..(n - 1) :
                       RayCrossesEdge(vertices, i, (i + n - 1) % n, point)}
    IN  Cardinality(toggles) % 2 = 1

\* the second loop: a vertex or an edge within tolerance of the point
OnBoundaryWithinTolerance(vertices, point) ==
    \E i \in 0..(Len(vertices) - 1) :
        LET edge == get_edge(vertices, i)
        IN  \/ PointEquals(edge[1], point, PolygonTolerance)
            \/ PointEquals(edge[2], point, PolygonTolerance)
            \/ segment_contains_point(LineSegment(edge[1], edge[2]), point,
                                      PolygonTolerance)

\* a version with the ray casting loop only
contains_point_ray_only(vertices, point) == RayCastInside(vertices, point)

\* Polygon.contains_point
contains_point(vertices, point) ==
    IF RayCastInside(vertices, point)
    THEN TRUE
    ELSE OnBoundaryWithinTolerance(vertices, point)

(***************************************************************************)
(* Polygon.get_convex_hull                                                 *)
(***************************************************************************)
\* key=lambda p: (p.x, p.y), compared as tuples
PointKeyLess(p, q) == RLt(p.x, q.x) \/ (p.x = q.x /\ RLt(p.y, q.y))

\* p put into a sorted sequence, after the elements with an equal key
RECURSIVE InsertSorted(_, _)
InsertSorted(sorted, p) ==
    IF sorted = <<>> THEN <<p>>
    ELSE IF PointKeyLess(p, sorted[Len(sorted)])
         THEN Append(InsertSorted(SubSeq(sorted, 1, Len(sorted) - 1), p),
                     sorted[Len(sorted)])
         ELSE Append(sorted, p)

\* sorted(vertices, key=...), stable
RECURSIVE SortedPoints(_)
SortedPoints(points) ==
    IF points = <<>> THEN <<>>
    ELSE InsertSorted(SortedPoints(SubSeq(points, 1, Len(points) - 1)),
                      points[Len(points)])

\* reversed(points)
RECURSIVE Reversed(_)
Reversed(points) ==
    IF points = <<>> THEN <<>>
    ELSE Append(Reversed(Tail(points)), Head(points))

\* cross(o, a, b) of get_convex_hull
HullCross(o, a, b) ==
    RSub(RMul(RSub(a.x, o.x), RSub(b.y, o.y)), RMul(RSub(a.y, o.y), RSub(b.x, o.x)))

\* the while loop: pop while the last two points and p make no left turn
RECURSIVE PopNonLeftTurns(_, _)
PopNonLeftTurns(chain, p) ==
    IF /\ Len(chain) >= 2
       /\ ~GtTol(HullCross(chain[Len(chain) - 1], chain[Len(chain)], p),
                 PolygonTolerance)
    THEN PopNonLeftTurns(SubSeq(chain, 1, Len(chain) - 1), p)
    ELSE chain

\* the for loop over points[i..], building a chain
RECURSIVE BuildChain(_, _, _)
BuildChain(points, i, chain) ==
    IF i > Len(points) THEN chain
    ELSE BuildChain(points, i + 1,
                    Append(PopNonLeftTurns(chain, points[i]), points[i]))

\* chain[:-1]
DropLast(chain) == SubSeq(chain, 1, Len(chain) - 1)

\* a version that builds the chains from the vertices as given, unsorted
get_convex_hull_unsorted(vertices) ==
    LET points == vertices
    IN  IF Len(points) <= 2
        THEN Polygon(points)
        ELSE LET lower == BuildChain(points, 1, <<>>)
                 upper == BuildChain(Reversed(points), 1, <<>>)
             IN  Polygon(DropLast(lower) \o DropLast(upper))

\* a version that drops one point too many from the upper chain
get_convex_hull_short_upper(vertices) ==
    LET points == SortedPoints(vertices)
    IN  IF Len(points) <= 2
        THEN Polygon(points)
        ELSE LET lower == BuildChain(points, 1, <<>>)
                 upper == BuildChain(Reversed(points), 1, <<>>)
             IN  Polygon(DropLast(lower) \o DropLast(DropLast(upper)))

get_convex_hull(vertices) ==
    LET points == SortedPoints(vertices)
    IN  IF Len(points) <= 2
        THEN Polygon(points)
        ELSE LET lower == BuildChain(points, 1, <<>>)
                 upper == BuildChain(Reversed(points), 1, <<>>)
             IN  Polygon(DropLast(lower) \o DropLast(upper))

(***************************************************************************)
(* Reference geometry, stated on the coordinates without the code's        *)
(* parametrisation.                                                        *)
(***************************************************************************)
\* (a - o) x (b - o)
Cross3(o, a, b) ==
    RSub(RMul(RSub(a.x, o.x), RSub(b.y, o.y)), RMul(RSub(a.y, o.y), RSub(b.x, o.x)))

\* (a - o) . (b - o)
Dot3(o, a, b) ==
    RAdd(RMul(RSub(a.x, o.x), RSub(b.x, o.x)), RMul(RSub(a.y, o.y), RSub(b.y, o.y)))

DistSq(a, b) == Dot3(a, b, b)

\* p is a point of the closed segment
OnSegment(p, seg) ==
    IF seg.start = seg.end
    THEN p = seg.start
    ELSE /\ Cross3(seg.start, seg.end, p) = Zero
         /\ RLe(Zero, Dot3(seg.start, seg.end, p))
         /\ RLe(Dot3(seg.start, seg.end, p), DistSq(seg.start, seg.end))

\* the cross product of the direction vectors of two segments
DirCross(s1, s2) ==
    RSub(RMul(RSub(s1.end.x, s1.start.x), RSub(s2.end.y, s2.start.y)),
         RMul(RSub(s1.end.y, s1.start.y), RSub(s2.end.x, s2.start.x)))

\* start + (k / SampleDiv) * (end - start)
SamplePoint(seg, k, div) ==
    Point2D(RAdd(seg.start.x, RMul(Rat(k, div), RSub(seg.end.x, seg.start.x))),
            RAdd(seg.start.y, RMul(Rat(k, div), RSub(seg.end.y, seg.start.y))))

SampleDiv == 4

DoneOp(name) == pc = "done" /\ op = name

(***************************************************************************)
(* Claims on segments.                                                     *)
(***************************************************************************)
\* C1: line_segment_intersection(s1, s2) and line_segment_intersection(s2, s1)
\* give the same result for every pair of segments: both None, or both the
\* same point.
C1_SegmentIntersectionSymmetric ==
    DoneOp("line_segment_intersection") =>
        ret = line_segment_intersection(args.s2, args.s1, SegTolerance)

\* two different segments that meet: a point is returned
C1_Witness ==
    /\ DoneOp("line_segment_intersection")
    /\ args.s1 # args.s2
    /\ args.s1.start # args.s1.end
    /\ ret.kind = "Point2D"
    /\ ret.p = args.s2.start

\* C2: a returned point lies on both segments (it is its own closest point on
\* each, and both solved parameters are in [0,1]); segments (0,0)-(2,2) and
\* (0,2)-(2,0) give (1,1).
C2_IntersectionOnBothSegments ==
    DoneOp("line_segment_intersection") =>
        /\ ret.kind = "Point2D" =>
              /\ OnSegment(ret.p, args.s1)
              /\ OnSegment(ret.p, args.s2)
              /\ PointEquals(get_closest_point(args.s1, ret.p), ret.p, SegTolerance)
              /\ PointEquals(get_closest_point(args.s2, ret.p), ret.p, SegTolerance)
              /\ get_parameter(args.s1, ret.p) = SegParamT(args.s1, args.s2)
              /\ get_parameter(args.s2, ret.p) = SegParamS(args.s1, args.s2)
        /\ (/\ args.s1 = LineSegment(Pt(0, 0), Pt(2, 2))
            /\ args.s2 = LineSegment(Pt(0, 2), Pt(2, 0)))
              => ret = RetPoint(Pt(1, 1))

\* a crossing that is not at the middle of both segments
C2_Witness ==
    /\ DoneOp("line_segment_intersection")
    /\ args.s1 = LineSegment(Pt(0, 0), Pt(2, 2))
    /\ args.s2 = LineSegment(Pt(0, 1), Pt(2, 0))
    /\ ret.kind = "Point2D"

\* C3: when the direction vectors have a zero cross product (parallel,
\* collinear, overlapping, touching, zero length) the result is None and
\* nothing is raised.
C3_ParallelGivesNone ==
    (DoneOp("line_segment_intersection") /\ DirCross(args.s1, args.s2) = Zero)
        => ret = None

\* collinear overlapping segments of non-zero length
C3_Witness ==
    /\ DoneOp("line_segment_intersection")
    /\ args.s1.start # args.s1.end
    /\ args.s2.start # args.s2.end
    /\ args.s1 # args.s2
    /\ DirCross(args.s1, args.s2) = Zero
    /\ OnSegment(args.s2.start, args.s1)
    /\ OnSegment(args.s1.end, args.s2)
    /\ ret = None

\* C10: get_closest_point returns start + t(end - start) with t the projection
\* parameter clamped to [0,1]: the result is on the segment and no point of
\* the segment is nearer; a zero-length segment gives its start point.
C10_ClosestPointOnSegment ==
    DoneOp("get_closest_point") =>
        LET seg == args.seg
            p == args.point
            q == ret.p
            dot == Dot3(seg.start, seg.end, p)
            len == DistSq(seg.start, seg.end)
        IN  /\ ret.kind = "Point2D"
            /\ OnSegment(q, seg)
            /\ \A k \in 0..SampleDiv :
                  RLe(DistSq(p, q), DistSq(p, SamplePoint(seg, k, SampleDiv)))
            /\ RLe(Dot3(q, p, seg.start), Zero)
            /\ RLe(Dot3(q, p, seg.end), Zero)
            /\ seg.start = seg.end => q = seg.start
            /\ (seg.start # seg.end /\ RLt(dot, Zero)) => q = seg.start
            /\ (seg.start # seg.end /\ RLt(len, dot)) => q = seg.end
            /\ (seg.start # seg.end /\ RLe(Zero, dot) /\ RLe(dot, len)) =>
                  Dot3(q, p, seg.end) = Zero

\* the projection falls beyond the end point and is clamped to it
C10_Witness ==
    /\ DoneOp("get_closest_point")
    /\ args.seg.start # args.seg.end
    /\ RLt(DistSq(args.seg.start, args.seg.end),
           Dot3(args.seg.start, args.seg.end, args.point))
    /\ ret = RetPoint(args.seg.end)

(***************************************************************************)
(* Claims on lines.                                                        *)
(***************************************************************************)
\* the cross product of the directions the two lines were constructed with
ArgsDirCross == RSub(RMul(args.d1.x, args.d2.y), RMul(args.d1.y, args.d2.x))

\* p is a point of the line through anchor with direction d
OnLine(p, anchor, d) ==
    RSub(RMul(RSub(p.x, anchor.x), d.y), RMul(RSub(p.y, anchor.y), d.x)) = Zero

\* C4: line_intersection(l1, l2) and l1.get_intersection(l2) both raise
\* ValueError when the lines are parallel (coincident lines included) and
\* otherwise both return the same point, which lies on both lines.
C4_LineIntersectionRaisesIffParallel ==
    (pc = "done" /\ op \in {"line_intersection", "Line.get_intersection"}) =>
        LET l1 == Line(args.p1, args.d1)
            l2 == Line(args.p2, args.d2)
        IN  /\ ArgsDirCross = Zero => ret = Raise("ValueError")
            /\ ArgsDirCross # Zero =>
                  /\ ret.kind = "Point2D"
                  /\ ret = line_intersection(l1, l2, LineTolerance)
                  /\ ret = get_intersection(l1, l2, LineTolerance)
                  /\ OnLine(ret.p, args.p1, args.d1)
                  /\ OnLine(ret.p, args.p2, args.d2)

\* two coincident lines given by different anchors and directions
C4_Witness ==
    /\ DoneOp("line_intersection")
    /\ args.p1 # args.p2
    /\ args.d1 # args.d2
    /\ args.d1 # Vector2D(Zero, Zero)
    /\ args.d2 # Vector2D(Zero, Zero)
    /\ ArgsDirCross = Zero
    /\ OnLine(args.p2, args.p1, args.d1)
    /\ ret = Raise("ValueError")

(***************************************************************************)
(* Claims on circles.                                                      *)
(***************************************************************************)
\* the square of the distance from p (coordinates holding a root) to c
SDistSq(p, c) ==
    SAdd(SMul(SSub(p.x, SurdOf(c.x)), SSub(p.x, SurdOf(c.x))),
         SMul(SSub(p.y, SurdOf(c.y)), SSub(p.y, SurdOf(c.y))))

\* every point of the returned list is on the circle
AllOnCircle(pts, center, radius) ==
    \A i \in 1..Len(pts) : SDistSq(pts[i], center) = SurdOf(RMul(radius, radius))

\* C5: for a line of non-zero direction, circle_line_intersection returns no
\* point when the distance from the centre to the line exceeds the radius, one
\* point when it equals the radius and two points when it is smaller; every
\* returned point is at distance radius from the centre; centre (0,0), radius
\* 5 and the line through (-10,0) with direction (1,0) give (-5,0) and (5,0).
C5_CircleLinePointCount ==
    (DoneOp("circle_line_intersection") /\ args.d # Vector2D(Zero, Zero)) =>
        LET cr == RSub(RMul(RSub(args.center.x, args.p.x), args.d.y),
                       RMul(RSub(args.center.y, args.p.y), args.d.x))
            \* distance^2 * |d|^2 and radius^2 * |d|^2
            lhs == RMul(cr, cr)
            rhs == RMul(RMul(args.radius, args.radius),
                        RAdd(RMul(args.d.x, args.d.x), RMul(args.d.y, args.d.y)))
        IN  /\ ret.kind = "list"
            /\ RLt(rhs, lhs) => Len(ret.pts) = 0
            /\ lhs = rhs => Len(ret.pts) = 1
            /\ RLt(lhs, rhs) => (Len(ret.pts) = 2 /\ ret.pts[1] # ret.pts[2])
            /\ AllOnCircle(ret.pts, args.center, args.radius)
            /\ args = CircleLineExample =>
                  ret.pts = <<SPointOf(Pt(-5, 0)), SPointOf(Pt(5, 0))>>

\* a chord off the centre whose end points have irrational coordinates
C5_Witness ==
    /\ DoneOp("circle_line_intersection")
    /\ args.d # Vector2D(Zero, Zero)
    /\ ~OnLine(args.center, args.p, args.d)
    /\ ret.kind = "list"
    /\ Len(ret.pts) = 2
    /\ ~IsRational(ret.pts[1].x)

PolygonSizes == {MinVertices, MinVertices + 1}

MaxPolyCoord == 1

PolyGridPoints == {Pt(i, j) : i \in 0..MaxPolyCoord, j \in 0..MaxPolyCoord}

\* the vertex lists Polygon.__init__ accepts, on the grid
VertexLists == UNION {[1..n -> PolyGridPoints] : n \in PolygonSizes}

\* the cross products of every vertex against every edge
SideValues(vertices) ==
    LET n == Len(vertices)
    IN  {Cross3(vertices[i], vertices[(i % n) + 1], vertices[k]) :
            i \in 1..n, k \in 1..n}

\* a convex polygon of non-zero area, wound either way: all vertices are on
\* one side of every edge
IsConvexPolygon(vertices) ==
    LET sides == SideValues(vertices)
    IN  /\ \/ \A c \in sides : c.n >= 0
           \/ \A c \in sides : c.n <= 0
        /\ \E c \in sides : c.n # 0

\* 1 for counter-clockwise, -1 for clockwise
Winding(vertices) == IF \E c \in SideValues(vertices) : c.n > 0 THEN 1 ELSE -1

\* the same-side test: x is on the inner side of every edge, or on it
InsideOrOnBoundary(vertices, x) ==
    LET n == Len(vertices)
        w == Winding(vertices)
    IN  \A i \in 1..n :
            w * Cross3(vertices[i], vertices[(i % n) + 1], x).n >= 0

\* x is a vertex or a point of an edge
OnBoundary(vertices, x) ==
    LET n == Len(vertices)
    IN  \E i \in 1..n : OnSegment(x, LineSegment(vertices[i], vertices[(i % n) + 1]))

ConvexVertexLists ==
    UNION {IF IsConvexPolygon(vs) THEN {vs} ELSE {} : vs \in VertexLists}

\* points of the half-integer grid, up to one step outside the polygon grid
QueryPoints ==
    {Point2D(Rat(i, 2), Rat(j, 2)) :
        i \in -1..(2 * MaxPolyCoord + 1), j \in -1..(2 * MaxPolyCoord + 1)}

InitPolygon ==
    /\ pc = "call"
    /\ ret = Pending
    /\ op = "Polygon.contains_point"
    /\ args \in [vertices : ConvexVertexLists, point : QueryPoints]

ContainsPoint ==
    /\ pc = "call"
    /\ op = "Polygon.contains_point"
    /\ ret' = RetBool(contains_point(args.vertices, args.point))
    /\ pc' = "done"
    /\ UNCHANGED <<op, args>>

NextPolygon == ContainsPoint

SpecPolygon == InitPolygon /\ [][NextPolygon]_vars

\* C7: for a convex polygon, wound either way, contains_point(x) is True
\* exactly when x is in the interior or on the boundary (a vertex or a point
\* of an edge): it agrees with the same-side test.
C7_ContainsPointAgreesWithSameSide ==
    DoneOp("Polygon.contains_point") =>
        /\ ret.kind = "bool"
        /\ ret.b = InsideOrOnBoundary(args.vertices, args.point)
        /\ OnBoundary(args.vertices, args.point) => ret.b

\* a point of an edge, not a vertex, that the ray casting loop leaves outside
C7_Witness ==
    /\ DoneOp("Polygon.contains_point")
    /\ OnBoundary(args.vertices, args.point)
    /\ \A i \in 1..Len(args.vertices) : args.vertices[i] # args.point
    /\ ~RayCastInside(args.vertices, args.point)
    /\ Winding(args.vertices) = -1
    /\ ret = RetBool(TRUE)

(***************************************************************************)
(* Calls of get_convex_hull: on a polygon, then on the hull it returned.   *)
(***************************************************************************)
HullVertexLists == UNION {[1..n -> GridPoints] : n \in PolygonSizes}

InitHull ==
    /\ pc = "call"
    /\ ret = Pending
    /\ op = "Polygon.get_convex_hull"
    /\ args \in [vertices : HullVertexLists]

GetConvexHull ==
    /\ pc = "call"
    /\ op = "Polygon.get_convex_hull"
    /\ ret' = get_convex_hull(args.vertices)
    /\ pc' = "done"
    /\ UNCHANGED <<op, args>>

\* hull.get_convex_hull(), hull being the polygon the first call returned
GetConvexHullOfHull ==
    /\ pc = "done"
    /\ op = "Polygon.get_convex_hull"
    /\ ret.kind = "Polygon"
    /\ args' = [vertices |-> ret.vertices]
    /\ ret' = get_convex_hull(ret.vertices)
    /\ pc' = "again"
    /\ UNCHANGED op

NextHull == GetConvexHull \/ GetConvexHullOfHull

SpecHull == InitHull /\ [][NextHull]_vars

VertexSet(vertices) == {vertices[i] : i \in 1..Len(vertices)}

NotAllCollinear(vertices) ==
    \E a \in VertexSet(vertices), b \in VertexSet(vertices), c \in VertexSet(vertices) :
        Cross3(a, b, c) # Zero

\* v is in the triangle a, b, c, its edges included (a segment or a point
\* when a, b, c are collinear)
InClosedTriangle(v, a, b, c) ==
    IF Cross3(a, b, c) = Zero
    THEN \/ OnSegment(v, LineSegment(a, b))
         \/ OnSegment(v, LineSegment(b, c))
         \/ OnSegment(v, LineSegment(a, c))
    ELSE LET s1 == Cross3(a, b, v).n
             s2 == Cross3(b, c, v).n
             s3 == Cross3(c, a, v).n
         IN  \/ (s1 >= 0 /\ s2 >= 0 /\ s3 >= 0)
             \/ (s1 <= 0 /\ s2 <= 0 /\ s3 <= 0)

\* v is a corner of the convex hull of S: no other points of S enclose it
IsExtreme(v, S) ==
    \A a \in S \ {v}, b \in S \ {v}, c \in S \ {v} : ~InClosedTriangle(v, a, b, c)

HullExampleInput == <<Pt(0, 0), Pt(2, 2), Pt(2, 0), Pt(1, 1)>>

\* C8: for vertices that are not all collinear, get_convex_hull returns the
\* smallest convex polygon enclosing them: hull vertices are input vertices,
\* every input vertex is inside or on the hull, vertices inside the hull or on
\* a hull edge between two others are left out, and the hull is listed
\* counter-clockwise whatever the winding of the input; the hull of
\* (0,0),(2,2),(2,0),(1,1) has the 3 vertices other than (1,1).
C8_ConvexHullIsSmallestEnclosing ==
    (DoneOp("Polygon.get_convex_hull") /\ NotAllCollinear(args.vertices)) =>
        /\ ret.kind = "Polygon"
        /\ LET h == ret.vertices
               m == Len(h)
               S == VertexSet(args.vertices)
           IN  /\ VertexSet(h) \subseteq S
               /\ \A i \in 1..m : \A v \in S :
                      Cross3(h[i], h[(i % m) + 1], v).n >= 0
               /\ \A i \in 1..m :
                      Cross3(h[i], h[(i % m) + 1], h[((i + 1) % m) + 1]).n > 0
               /\ VertexSet(h) = {v \in S : IsExtreme(v, S)}
               /\ Cardinality(VertexSet(h)) = m
               /\ args.vertices = HullExampleInput =>
                      (m = 3 /\ VertexSet(h) = S \ {Pt(1, 1)})

\* the hull of a clockwise input that has a vertex on an edge of its hull
C8_Witness ==
    /\ DoneOp("Polygon.get_convex_hull")
    /\ args.vertices = <<Pt(0, 0), Pt(0, 2), Pt(1, 1), Pt(2, 0)>>
    /\ ret = RetPolygon(<<Pt(0, 0), Pt(2, 0), Pt(0, 2)>>)

\* C9: convex hull is idempotent: when get_convex_hull returns a hull h,
\* h.get_convex_hull() has the same set of vertices as h.
C9_ConvexHullIdempotent ==
    (pc = "again" /\ op = "Polygon.get_convex_hull") =>
        /\ ret.kind = "Polygon"
        /\ VertexSet(ret.vertices) = VertexSet(args.vertices)

\* the hull of a quadrilateral hull
C9_Witness ==
    /\ pc = "again"
    /\ op = "Polygon.get_convex_hull"
    /\ Len(args.vertices) = 4
    /\ ret.kind = "Polygon"
    /\ Len(ret.vertices) = 4

(***************************************************************************)
(* Distances and nearest points: geometry_utils, utils/projection_ops.     *)
(***************************************************************************)
\* a float result; v is a + b * sqrt(k)
RetFloat(v) == [kind |-> "float", v |-> v]

\* a (Point2D, float) result
RetPointDist(p, v) == [kind |-> "tuple", p |-> p, dist |-> v]

\* float("inf")
Infinity == [kind |-> "inf"]

\* u * u for u a rational or a single root
RootSq(u) == RAdd(RMul(u.a, u.a), RMul(RMul(u.b, u.b), F(u.k)))

\* u < v for u, v >= 0, each a rational or a single root
RootLt(u, v) == RLt(RootSq(u), RootSq(v))

\* distance < min_distance
LtMin(distance, min_distance) ==
    IF min_distance = Infinity THEN TRUE ELSE RootLt(distance, min_distance)

\* LineSegment.get_distance_to_point, point_to_segment_distance
point_to_segment_distance(point, seg) == distance_to(point, get_closest_point(seg, point))

\* Polygon.get_edges: n edges, the closing edge included
get_edges(vertices) ==
    [i \in 1..Len(vertices) |-> <<vertices[i], vertices[(i % Len(vertices)) + 1]>>]

\* the loop of point_to_polygon_distance over edges[i..]
RECURSIVE MinEdgeDistance(_, _, _, _)
MinEdgeDistance(edges, point, i, min_distance) ==
    IF i > Len(edges)
    THEN min_distance
    ELSE LET distance == point_to_segment_distance(point, LineSegment(edges[i][1], edges[i][2]))
         IN  MinEdgeDistance(edges, point, i + 1,
                 IF LtMin(distance, min_distance) THEN distance ELSE min_distance)

\* a version that leaves out the closing edge
point_to_polygon_distance_open_chain(point, vertices) ==
    IF contains_point(vertices, point)
    THEN RetFloat(SurdOf(Zero))
    ELSE RetFloat(MinEdgeDistance(SubSeq(get_edges(vertices), 1, Len(vertices) - 1),
                                  point, 1, Infinity))

point_to_polygon_distance(point, vertices) ==
    IF contains_point(vertices, point)
    THEN RetFloat(SurdOf(Zero))
    ELSE RetFloat(MinEdgeDistance(get_edges(vertices), point, 1, Infinity))

(***************************************************************************)
(* projection_ops: the nearest point of a circle.                          *)
(***************************************************************************)
NearestTolerance == 10

\* q / u for a rational q and u > 0 a rational or a single root
RDivRoot(q, u) ==
    IF IsRational(u)
    THEN SurdOf(RDiv(q, u.a))
    ELSE Surd(Zero, RDiv(q, RMul(u.b, F(u.k))), u.k)

\* max(0, u)
SMax0(u) == IF SSign(u) < 0 THEN SurdOf(Zero) ELSE u

\* the Circle branch of nearest_point_on_geometry
nearest_point_on_circle(point, circle, tolerance) ==
    LET center == circle.center
        radius == circle.radius
        dx == RSub(point.x, center.x)
        dy == RSub(point.y, center.y)
        dist_to_center == Sqrt(RAdd(RMul(dx, dx), RMul(dy, dy)))
    IN  IF RootLtTol(dist_to_center, tolerance)
        THEN RetPointDist(SPointOf(Point2D(RAdd(center.x, radius), center.y)), SurdOf(radius))
        ELSE LET factor == RDivRoot(radius, dist_to_center)
                 closest == SPoint(SAdd(SurdOf(center.x), SMul(SurdOf(dx), factor)),
                                   SAdd(SurdOf(center.y), SMul(SurdOf(dy), factor)))
                 distance == SSub(distance_to(point, center), SurdOf(radius))
             IN  RetPointDist(closest, SMax0(distance))

\* point_to_circle_nearest: the nearest point and the distance of the result;
\* its third component, the polar angle of the point, is left out
point_to_circle_nearest(point, circle, tolerance) ==
    LET center == circle.center
        radius == circle.radius
        dx == RSub(point.x, center.x)
        dy == RSub(point.y, center.y)
        dist_to_center == Sqrt(RAdd(RMul(dx, dx), RMul(dy, dy)))
    IN  IF RootLtTol(dist_to_center, tolerance)
        THEN RetPointDist(SPointOf(Point2D(RAdd(center.x, radius), center.y)), SurdOf(radius))
        ELSE LET factor == RDivRoot(radius, dist_to_center)
                 nearest_x == SAdd(SurdOf(center.x), SMul(SurdOf(dx), factor))
                 nearest_y == SAdd(SurdOf(center.y), SMul(SurdOf(dy), factor))
             IN  RetPointDist(SPoint(nearest_x, nearest_y),
                              SMax0(SSub(dist_to_center, SurdOf(radius))))

(***************************************************************************)
(* surface/rectangle.py                                                    *)
(***************************************************************************)
RectangleTolerance == 6

RectangleVertices == 4

RetRectangle(vertices) == [kind |-> "Rectangle", vertices |-> vertices]

\* Rectangle.__init__
Rectangle(vertices) ==
    IF Len(vertices) # RectangleVertices THEN Raise("ValueError") ELSE RetRectangle(vertices)

\* min(vals), max(vals) for a non-empty sequence
RECURSIVE MinOf(_)
MinOf(vals) ==
    IF Len(vals) = 1 THEN vals[1] ELSE RMin(vals[1], MinOf(Tail(vals)))

RECURSIVE MaxOf(_)
MaxOf(vals) ==
    IF Len(vals) = 1 THEN vals[1] ELSE RMax(vals[1], MaxOf(Tail(vals)))

\* Rectangle.get_bounds: (x_min, y_min, x_max, y_max)
rectangle_get_bounds(vertices) ==
    LET x_vals == [i \in 1..Len(vertices) |-> vertices[i].x]
        y_vals == [i \in 1..Len(vertices) |-> vertices[i].y]
    IN  <<MinOf(x_vals), MinOf(y_vals), MaxOf(x_vals), MaxOf(y_vals)>>

\* Rectangle.contains_point
rectangle_contains_point(vertices, point) ==
    LET bounds == rectangle_get_bounds(vertices)
    IN  IF \/ GtTol(RSub(bounds[1], point.x), RectangleTolerance)
           \/ GtTol(RSub(point.x, bounds[3]), RectangleTolerance)
        THEN FALSE
        ELSE IF \/ GtTol(RSub(bounds[2], point.y), RectangleTolerance)
                \/ GtTol(RSub(point.y, bounds[4]), RectangleTolerance)
        THEN FALSE
        ELSE TRUE

\* geometry_utils.point_to_rectangle_distance
point_to_rectangle_distance(point, vertices) ==
    IF rectangle_contains_point(vertices, point)
    THEN RetFloat(SurdOf(Zero))
    ELSE LET bounds == rectangle_get_bounds(vertices)
             dx == RMax(RMax(RSub(bounds[1], point.x), Zero), RSub(point.x, bounds[3]))
             dy == RMax(RMax(RSub(bounds[2], point.y), Zero), RSub(point.y, bounds[4]))
         IN  RetFloat(Sqrt(RAdd(RMul(dx, dx), RMul(dy, dy))))

(***************************************************************************)
(* projection_ops.nearest_point_on_geometry.  A geometry is a value with   *)
(* its class; the edges Polygon.get_edges returns are tuples.  The Ellipse *)
(* branch is a numerical search and ellipses are not among the inputs.     *)
(***************************************************************************)
Geometry(type, shape) == [type |-> type, shape |-> shape]

\* the Rectangle branch: the point clamped to the bounding box
nearest_point_on_rectangle(point, vertices) ==
    LET bounds == rectangle_get_bounds(vertices)
        closest == Point2D(RMax(bounds[1], RMin(point.x, bounds[3])),
                           RMax(bounds[2], RMin(point.y, bounds[4])))
    IN  RetPointDist(SPointOf(closest), distance_to(point, closest))

RECURSIVE nearest_point_on_geometry(_, _, _)
RECURSIVE NearestOverEdges(_, _, _, _, _, _)
\* the loop of the Polygon branch over edges[i..]; an exception raised by the
\* call for an edge leaves the function
NearestOverEdges(point, edges, i, min_point, min_distance, tolerance) ==
    IF i > Len(edges)
    THEN IF min_point = None
         THEN RetPointDist(SPointOf(Point2D(Zero, Zero)), SurdOf(Zero))
         ELSE RetPointDist(min_point, min_distance)
    ELSE LET r == nearest_point_on_geometry(point, Geometry("tuple", edges[i]), tolerance)
         IN  IF r.kind = "raise"
             THEN r
             ELSE IF LtMin(r.dist, min_distance)
                  THEN NearestOverEdges(point, edges, i + 1, r.p, r.dist, tolerance)
                  ELSE NearestOverEdges(point, edges, i + 1, min_point, min_distance, tolerance)

nearest_point_on_geometry(point, geometry, tolerance) ==
    CASE geometry.type = "Line" ->
             LET closest_point == line_get_closest_point(geometry.shape, point)
             IN  RetPointDist(SPointOf(closest_point), distance_to(point, closest_point))
      [] geometry.type = "LineSegment" ->
             LET closest_point == get_closest_point(geometry.shape, point)
             IN  RetPointDist(SPointOf(closest_point), distance_to(point, closest_point))
      [] geometry.type = "Circle" ->
             nearest_point_on_circle(point, geometry.shape, tolerance)
      [] geometry.type = "Rectangle" ->
             nearest_point_on_rectangle(point, geometry.shape)
      [] geometry.type = "Polygon" ->
             NearestOverEdges(point, get_edges(geometry.shape), 1, None, Infinity, tolerance)
      [] OTHER -> Raise("TypeError")

(***************************************************************************)
(* Calls of the distance and nearest-point functions.                      *)
(***************************************************************************)
\* polygon (0,0),(4,0),(4,3),(0,3) with the points (2,1) and (5,1)
PolygonDistanceExamples ==
    {[vertices |-> <<Pt(0, 0), Pt(4, 0), Pt(4, 3), Pt(0, 3)>>, point |-> q] :
        q \in {Pt(2, 1), Pt(5, 1), Pt(-1, 1)}}

Triangles == [1..MinVertices -> PolyGridPoints]

\* triangles, and quadrilaterals with a vertex at the origin
DistanceVertexLists == Triangles \cup {<<Pt(0, 0)>> \o t : t \in Triangles}

PolygonDistanceArgs == [vertices : DistanceVertexLists, point : QueryPoints]

NearestCircles == {Circle(c, r) : c \in Anchors, r \in Radii}

CircleNearestArgs == [point : Centers, circle : NearestCircles]

MaxSize == 2

NonZeroDirections == Directions \ {Vector2D(Zero, Zero)}

\* [v0, v1, v2, v3] of the rectangle with centre c and half-axes u and v
Corners(c, u, v) ==
    <<Point2D(RSub(RSub(c.x, u.x), v.x), RSub(RSub(c.y, u.y), v.y)),
      Point2D(RSub(RAdd(c.x, u.x), v.x), RSub(RAdd(c.y, u.y), v.y)),
      Point2D(RAdd(RAdd(c.x, u.x), v.x), RAdd(RAdd(c.y, u.y), v.y)),
      Point2D(RAdd(RSub(c.x, u.x), v.x), RAdd(RSub(c.y, u.y), v.y))>>

\* half-axes along any direction of the half-integer grid
HalfAxes ==
    {Vector2D(Rat(i, 2), Rat(j, 2)) : i \in -MaxSize..MaxSize, j \in -MaxSize..MaxSize}
        \ {Vector2D(Zero, Zero)}

\* rectangles given by their four vertices, counter-clockwise: axis-aligned
\* ones from their bounds, and rotated ones with sides in the ratio 1:1 or 1:2
RectangleInputs ==
    {Rectangle(<<Pt(b[1], b[2]), Pt(b[3], b[2]), Pt(b[3], b[4]), Pt(b[1], b[4])>>).vertices :
        b \in {c \in Coords \X Coords \X Coords \X Coords : c[1] < c[3] /\ c[2] < c[4]}}
    \cup
    {Rectangle(Corners(c, u, Vector2D(RMul(F(s), RNeg(u.y)), RMul(F(s), u.x)))).vertices :
        c \in Anchors, u \in HalfAxes, s \in 1..2}

RectangleQueryPoints == {Pt(i, j) : i \in -MaxCoord..MaxCoord, j \in -MaxCoord..MaxCoord}

NearestGeometryArgs ==
    {[point |-> a.point, geometry |-> Geometry("Circle", a.circle)] : a \in CircleNearestArgs}
    \cup
    {[point |-> q, geometry |-> Geometry("Polygon", vs)] : q \in Anchors, vs \in Triangles}
    \cup
    {[point |-> a.point, geometry |-> Geometry("Polygon", a.vertices)] :
        a \in PolygonDistanceExamples}
    \cup
    {[point |-> q, geometry |-> Geometry("LineSegment", LineSegment(a, b))] :
        q \in Anchors, a \in Anchors, b \in Anchors}
    \cup
    {[point |-> q, geometry |-> Geometry("Line", Line(a, d))] :
        q \in Anchors, a \in Anchors, d \in NonZeroDirections}
    \cup
    {[point |-> q, geometry |-> Geometry("Rectangle", vs)] :
        q \in Anchors, vs \in RectangleInputs}

InitNearest ==
    /\ pc = "call"
    /\ ret = Pending
    /\ \/ op = "point_to_polygon_distance" /\ args \in PolygonDistanceArgs
       \/ op = "point_to_polygon_distance" /\ args \in PolygonDistanceExamples
       \/ op = "nearest_point_on_geometry" /\ args \in NearestGeometryArgs
       \/ op = "point_to_circle_nearest" /\ args \in CircleNearestArgs
       \/ op = "point_to_rectangle_distance"
          /\ args \in [point : RectangleQueryPoints, rect : RectangleInputs]

PointToPolygonDistance ==
    /\ pc = "call"
    /\ op = "point_to_polygon_distance"
    /\ ret' = point_to_polygon_distance(args.point, args.vertices)
    /\ pc' = "done"
    /\ UNCHANGED <<op, args>>

NearestPointOnGeometry ==
    /\ pc = "call"
    /\ op = "nearest_point_on_geometry"
    /\ ret' = nearest_point_on_geometry(args.point, args.geometry, NearestTolerance)
    /\ pc' = "done"
    /\ UNCHANGED <<op, args>>

PointToCircleNearest ==
    /\ pc = "call"
    /\ op = "point_to_circle_nearest"
    /\ ret' = point_to_circle_nearest(args.point, args.circle, NearestTolerance)
    /\ pc' = "done"
    /\ UNCHANGED <<op, args>>

PointToRectangleDistance ==
    /\ pc = "call"
    /\ op = "point_to_rectangle_distance"
    /\ ret' = point_to_rectangle_distance(args.point, args.rect)
    /\ pc' = "done"
    /\ UNCHANGED <<op, args>>

NextNearest ==
    \/ PointToPolygonDistance
    \/ NearestPointOnGeometry
    \/ PointToCircleNearest
    \/ PointToRectangleDistance

SpecNearest == InitNearest /\ [][NextNearest]_vars

(***************************************************************************)
(* Claims on distances and nearest points.                                 *)
(***************************************************************************)
\* the squared distance from p to the closed segment a-b: to an end point
\* when the foot of the perpendicular is outside the segment, else
\* cross^2 / |b - a|^2
SegDistSq(p, a, b) ==
    IF a = b THEN DistSq(p, a)
    ELSE IF RLe(Dot3(a, b, p), Zero) THEN DistSq(p, a)
    ELSE IF RLe(DistSq(a, b), Dot3(a, b, p)) THEN DistSq(p, b)
    ELSE RDiv(RMul(Cross3(a, b, p), Cross3(a, b, p)), DistSq(a, b))

\* the least squared distance from p to an edge, the closing edge included
MinEdgeDistSq(vertices, p) ==
    LET n == Len(vertices)
        ds == {SegDistSq(p, vertices[i], vertices[(i % n) + 1]) : i \in 1..n}
    IN  CHOOSE m \in ds : \A d \in ds : RLe(m, d)

\* C11: point_to_polygon_distance is exactly 0 when Polygon.contains_point
\* holds of the point and otherwise the minimum over all edges, the closing
\* edge included, of the point-to-segment distance; for polygon
\* (0,0),(4,0),(4,3),(0,3) the point (2,1) gives 0 and the point (5,1) gives 1.
C11_PolygonDistanceZeroInsideElseMinEdge ==
    DoneOp("point_to_polygon_distance") =>
        /\ ret.kind = "float"
        /\ SSign(ret.v) >= 0
        /\ IF contains_point(args.vertices, args.point)
           THEN ret.v = SurdOf(Zero)
           ELSE RootSq(ret.v) = MinEdgeDistSq(args.vertices, args.point)
        /\ (OnBoundary(args.vertices, args.point) => ret.v = SurdOf(Zero))
        /\ (args.vertices = <<Pt(0, 0), Pt(4, 0), Pt(4, 3), Pt(0, 3)>> =>
               /\ args.point = Pt(2, 1) => ret.v = SurdOf(Zero)
               /\ args.point = Pt(5, 1) => ret.v = SurdOf(One))

\* a point outside a quadrilateral whose nearest edge is the closing edge
C11_Witness ==
    /\ DoneOp("point_to_polygon_distance")
    /\ args.vertices = <<Pt(0, 0), Pt(4, 0), Pt(4, 3), Pt(0, 3)>>
    /\ args.point = Pt(-1, 1)
    /\ ret = RetFloat(SurdOf(One))

\* C12: for every circle and query point, nearest_point_on_geometry and
\* point_to_circle_nearest return a point q of the circle and the Euclidean
\* distance from the query point to q; at the centre they return
\* (center.x + radius, center.y) and the radius, and do not raise.
C12_CircleNearestIsBoundaryPointAndDistance ==
    ((DoneOp("nearest_point_on_geometry") /\ args.geometry.type = "Circle")
        \/ DoneOp("point_to_circle_nearest")) =>
        LET circle == IF op = "point_to_circle_nearest" THEN args.circle
                      ELSE args.geometry.shape
        IN  /\ ret.kind = "tuple"
            /\ SDistSq(ret.p, circle.center) = SurdOf(RMul(circle.radius, circle.radius))
            /\ SSign(ret.dist) >= 0
            /\ SMul(ret.dist, ret.dist) = SDistSq(ret.p, args.point)
            /\ (args.point = circle.center =>
                   /\ ret.p = SPointOf(Point2D(RAdd(circle.center.x, circle.radius),
                                               circle.center.y))
                   /\ ret.dist = SurdOf(circle.radius))

\* C13: nearest_point_on_geometry(point, polygon) returns normally and its
\* distance equals point_to_polygon_distance(point, polygon).
C13_NearestOnPolygonMatchesDistance ==
    (DoneOp("nearest_point_on_geometry") /\ args.geometry.type = "Polygon") =>
        /\ ret.kind = "tuple"
        /\ RootSq(ret.dist) =
               RootSq(point_to_polygon_distance(args.point, args.geometry.shape).v)

\* C14: for every rectangle, axis-aligned or rotated, point_to_rectangle_distance
\* is 0 when the point is inside the rectangle and otherwise the minimum
\* distance from the point to the four edges.
C14_RectangleDistanceZeroInsideElseMinEdge ==
    DoneOp("point_to_rectangle_distance") =>
        /\ ret.kind = "float"
        /\ SSign(ret.v) >= 0
        /\ RootSq(ret.v) =
               IF InsideOrOnBoundary(args.rect, args.point)
               THEN Zero
               ELSE MinEdgeDistSq(args.rect, args.point)

(***************************************************************************)
(* Polygon.is_convex, Polygon.is_simple                                    *)
(***************************************************************************)
\* the loop of is_convex over i..n-1, i from 0: FALSE once a cross product
\* beyond tolerance has the sign opposite to the first one
RECURSIVE ConvexLoop(_, _, _)
ConvexLoop(vertices, i, sign) ==
    LET n == Len(vertices)
    IN  IF i >= n
        THEN TRUE
        ELSE LET p0 == vertices[i + 1]
                 p1 == vertices[((i + 1) % n) + 1]
                 p2 == vertices[((i + 2) % n) + 1]
                 v1 == <<RSub(p1.x, p0.x), RSub(p1.y, p0.y)>>
                 v2 == <<RSub(p2.x, p1.x), RSub(p2.y, p1.y)>>
                 cross == RSub(RMul(v1[1], v2[2]), RMul(v1[2], v2[1]))
             IN  IF GtTol(RAbs(cross), PolygonTolerance)
                 THEN IF sign = 0
                      THEN ConvexLoop(vertices, i + 1, IF cross.n > 0 THEN 1 ELSE -1)
                      ELSE IF (cross.n > 0 /\ sign < 0) \/ (cross.n < 0 /\ sign > 0)
                           THEN FALSE
                           ELSE ConvexLoop(vertices, i + 1, sign)
                 ELSE ConvexLoop(vertices, i + 1, sign)

\* a version that stops before the two wrap-around vertices
RECURSIVE ConvexLoopNoWrap(_, _, _)
ConvexLoopNoWrap(vertices, i, sign) ==
    LET n == Len(vertices)
    IN  IF i >= n - 2
        THEN TRUE
        ELSE LET cross == Cross3(vertices[i + 1], vertices[i + 2], vertices[i + 3])
             IN  IF GtTol(RAbs(cross), PolygonTolerance)
                 THEN IF sign = 0
                      THEN ConvexLoopNoWrap(vertices, i + 1, IF cross.n > 0 THEN 1 ELSE -1)
                      ELSE IF (cross.n > 0 /\ sign < 0) \/ (cross.n < 0 /\ sign > 0)
                           THEN FALSE
                           ELSE ConvexLoopNoWrap(vertices, i + 1, sign)
                 ELSE ConvexLoopNoWrap(vertices, i + 1, sign)

is_convex_no_wrap(vertices) ==
    IF Len(vertices) < 4 THEN TRUE ELSE ConvexLoopNoWrap(vertices, 0, 0)

\* Polygon.is_convex
is_convex(vertices) ==
    IF Len(vertices) < 4 THEN TRUE ELSE ConvexLoop(vertices, 0, 0)

\* Polygon.is_simple: the pairs i, j >= i + 2 of edges, edge 0 with edge n-1
\* skipped; False at the first pair line_segment_intersection finds a point for
is_simple(vertices) ==
    LET n == Len(vertices)
        edges == get_edges(vertices)
    IN  \A i \in 0..(n - 1) : \A j \in (i + 2)..(n - 1) :
            \/ j = i
            \/ (i = 0 /\ j = n - 1)
            \/ line_segment_intersection(
                   LineSegment(edges[i + 1][1], edges[i + 1][2]),
                   LineSegment(edges[j + 1][1], edges[j + 1][2]),
                   SegTolerance) = None

(***************************************************************************)
(* Calls of is_convex and is_simple.                                       *)
(***************************************************************************)
\* the square and the star of the docstring of is_convex
ConvexExampleSquare == <<Pt(0, 0), Pt(1, 0), Pt(1, 1), Pt(0, 1)>>

ConvexExampleStar ==
    <<Pt(0, 1), Point2D(Rat(1, 5), Rat(1, 5)), Pt(1, 0),
      Point2D(Rat(3, 10), Rat(2, 5)), Point2D(Rat(1, 2), Rat(-1, 2))>>

\* a pentagon with two non-adjacent edges that overlap along y = 1
OverlapExample == <<Pt(0, 0), Pt(0, 1), Pt(2, 1), Pt(1, 1), Pt(3, 1)>>

ShapeTriangles == [1..MinVertices -> GridPoints]

\* a five-pointed star drawn in one stroke: every turn is to the same side
\* and every edge crosses two others
Pentagram == <<Pt(0, 3), Pt(2, -3), Pt(-3, 1), Pt(3, 1), Pt(-2, -3)>>

\* triangles, quadrilaterals with a vertex at the origin, and the examples
ShapeVertexLists ==
    ShapeTriangles \cup {<<Pt(0, 0)>> \o t : t \in ShapeTriangles}
        \cup {ConvexExampleSquare, ConvexExampleStar, OverlapExample, Pentagram}

InitShape ==
    /\ pc = "call"
    /\ ret = Pending
    /\ op \in {"Polygon.is_convex", "Polygon.is_simple"}
    /\ args \in [vertices : ShapeVertexLists]

IsConvex ==
    /\ pc = "call"
    /\ op = "Polygon.is_convex"
    /\ ret' = RetBool(is_convex(args.vertices))
    /\ pc' = "done"
    /\ UNCHANGED <<op, args>>

IsSimple ==
    /\ pc = "call"
    /\ op = "Polygon.is_simple"
    /\ ret' = RetBool(is_simple(args.vertices))
    /\ pc' = "done"
    /\ UNCHANGED <<op, args>>

NextShape == IsConvex \/ IsSimple

SpecShape == InitShape /\ [][NextShape]_vars

\* the closed segments a-b and c-d have a point in common
SegmentsMeet(a, b, c, d) ==
    \/ /\ Cross3(c, d, a).n * Cross3(c, d, b).n < 0
       /\ Cross3(a, b, c).n * Cross3(a, b, d).n < 0
    \/ OnSegment(a, LineSegment(c, d))
    \/ OnSegment(b, LineSegment(c, d))
    \/ OnSegment(c, LineSegment(a, b))
    \/ OnSegment(d, LineSegment(a, b))

\* edges i and j, from 1, are neither the same edge nor neighbours
NonAdjacent(n, i, j) ==
    /\ i # j
    /\ (i % n) + 1 # j
    /\ (j % n) + 1 # i

\* no two non-adjacent edges have a point in common
NoNonAdjacentEdgesMeet(vertices) ==
    LET n == Len(vertices)
    IN  \A i \in 1..n : \A j \in 1..n :
            NonAdjacent(n, i, j) =>
                ~SegmentsMeet(vertices[i], vertices[(i % n) + 1],
                              vertices[j], vertices[(j % n) + 1])

\* C15: is_simple() returns True exactly when no two non-adjacent edges have
\* a point in common; adjacent edges, the last and the first included, do not
\* count, so every triangle is simple.
C15_SimpleIffNoNonAdjacentEdgesMeet ==
    DoneOp("Polygon.is_simple") =>
        /\ ret = RetBool(NoNonAdjacentEdgesMeet(args.vertices))
        /\ (Len(args.vertices) = 3 => ret = RetBool(TRUE))

\* the signs of the cross products of successive edge vectors at all
\* vertices, those of value zero left out
TurnSigns(vertices) ==
    LET n == Len(vertices)
    IN  {RSign(Cross3(vertices[i], vertices[(i % n) + 1], vertices[((i + 1) % n) + 1])) :
            i \in 1..n} \ {0}

\* C16: is_convex() is True for fewer than 4 vertices; for 4 or more it is
\* True exactly when the cross products of successive edge vectors at all
\* vertices, wrap-around included and zero ones ignored, have one sign; a
\* vertex list and its reversal get the same answer.
C16_ConvexIffTurnsShareSign ==
    DoneOp("Polygon.is_convex") =>
        /\ ret.kind = "bool"
        /\ (Len(args.vertices) < 4 => ret.b)
        /\ (Len(args.vertices) >= 4 =>
               (ret.b <=> Cardinality(TurnSigns(args.vertices)) <= 1))
        /\ ret.b = is_convex(Reversed(args.vertices))
        /\ (args.vertices = ConvexExampleSquare => ret.b)
        /\ (args.vertices = ConvexExampleStar => ~ret.b)

\* a quadrilateral whose only turn of the other sign is at a wrap-around vertex
C16_Witness ==
    /\ DoneOp("Polygon.is_convex")
    /\ args.vertices = <<Pt(0, 0), Pt(2, 1), Pt(0, 2), Pt(1, 1)>>
    /\ ret = RetBool(FALSE)

(***************************************************************************)
(* intersection_ops.line_polygon_intersection_points                       *)
(***************************************************************************)
IntersectTolerance == 10

\* the length given to the line when it is made a segment
ExtendedLength == 1000

\* line_segment_intersection(s1, s2, tolerance) for s2 of any class: the
\* function reads s2.start and s2.end, which a tuple does not have
line_segment_intersection_with(s1, s2, tolerance) ==
    IF s2.type = "LineSegment"
    THEN line_segment_intersection(s1, s2.shape, tolerance)
    ELSE Raise("AttributeError")

\* _line_segment_intersection
line_segment_intersection_of_line(line, segment, tolerance) ==
    LET p1 == line.point
        p2 == Point2D(RAdd(p1.x, RMul(line.direction.x, F(ExtendedLength))),
                      RAdd(p1.y, RMul(line.direction.y, F(ExtendedLength))))
        extended_segment == LineSegment(p1, p2)
    IN  line_segment_intersection_with(extended_segment, segment, tolerance)

\* the sort key: the parameter of p along the line
LineParameter(line, p) ==
    LET direction == line.direction
        dir_len_sq == RAdd(RMul(direction.x, direction.x), RMul(direction.y, direction.y))
    IN  RDiv(RAdd(RMul(RSub(p.x, line.point.x), direction.x),
                  RMul(RSub(p.y, line.point.y), direction.y)),
             dir_len_sq)

\* p put into a sequence sorted by parameter, after the points of equal key
RECURSIVE InsertByParameter(_, _, _)
InsertByParameter(line, sorted, p) ==
    IF sorted = <<>>
    THEN <<p>>
    ELSE IF RLt(LineParameter(line, p), LineParameter(line, Head(sorted)))
         THEN <<p>> \o sorted
         ELSE <<Head(sorted)>> \o InsertByParameter(line, Tail(sorted), p)

\* intersections.sort(key=...), stable
RECURSIVE SortByParameter(_, _)
SortByParameter(line, points) ==
    IF points = <<>>
    THEN <<>>
    ELSE InsertByParameter(line, SortByParameter(line, SubSeq(points, 1, Len(points) - 1)),
                           points[Len(points)])

\* the loop over edges[i..]; the rounded key of a point of the grid inputs
\* is equal for two points exactly when the points are equal, so the set of
\* keys is kept as the set of points; an exception leaves the function
RECURSIVE LinePolygonLoop(_, _, _, _, _, _)
LinePolygonLoop(line, edges, i, intersections, seen_points, tolerance) ==
    IF i > Len(edges)
    THEN LET direction == line.direction
             dir_len_sq == RAdd(RMul(direction.x, direction.x),
                                RMul(direction.y, direction.y))
         IN  IF GtTol(dir_len_sq, tolerance)
             THEN RetPoints(SortByParameter(line, intersections))
             ELSE RetPoints(intersections)
    ELSE LET point == line_segment_intersection_of_line(line, Geometry("tuple", edges[i]),
                                                        tolerance)
         IN  IF point.kind = "raise"
             THEN point
             ELSE IF point # None /\ point.p \notin seen_points
                  THEN LinePolygonLoop(line, edges, i + 1, Append(intersections, point.p),
                                       seen_points \cup {point.p}, tolerance)
                  ELSE LinePolygonLoop(line, edges, i + 1, intersections, seen_points,
                                       tolerance)

line_polygon_intersection_points(line, vertices, tolerance) ==
    LinePolygonLoop(line, get_edges(vertices), 1, <<>>, {}, tolerance)

(***************************************************************************)
(* intersection_ops.circle_segment_intersection                            *)
(***************************************************************************)
\* LineSegment.get_closest_point for a point with coordinates from a root
closest_point_of_root_point(seg, point) ==
    LET dx == RSub(seg.end.x, seg.start.x)
        dy == RSub(seg.end.y, seg.start.y)
        len_sq == RAdd(RMul(dx, dx), RMul(dy, dy))
        param == IF LtTol(len_sq, DegenerateLenSqExp)
                 THEN SurdOf(Zero)
                 ELSE SMul(SAdd(SMul(SSub(point.x, SurdOf(seg.start.x)), SurdOf(dx)),
                                SMul(SSub(point.y, SurdOf(seg.start.y)), SurdOf(dy))),
                           SurdOf(RDiv(One, len_sq)))
        t == IF SSign(param) < 0 THEN SurdOf(Zero)
             ELSE IF SLt(SurdOf(One), param) THEN SurdOf(One)
             ELSE param
    IN  SPoint(SAdd(SurdOf(seg.start.x), SMul(t, SurdOf(dx))),
               SAdd(SurdOf(seg.start.y), SMul(t, SurdOf(dy))))

\* the square of point.distance_to(closest)
RootPointDistSq(p, q) ==
    SAdd(SMul(SSub(p.x, q.x), SSub(p.x, q.x)), SMul(SSub(p.y, q.y), SSub(p.y, q.y)))

\* a rational lower bound of u = a + b * sqrt(k) > 0, u irrational:
\* u = |a^2 - b^2 k| / |a - b sqrt(k)| and |a - b sqrt(k)| <= |a| + |b| k
RootLowerBound(u) ==
    RDiv(RAbs(RSub(RMul(u.a, u.a), RMul(RMul(u.b, u.b), F(u.k)))),
         RAdd(RAbs(u.a), RMul(RAbs(u.b), F(u.k))))

\* dist < 1e-e, given dist_sq >= 0: dist_sq < 1e-2e
DistSqLtTol(dist_sq, e) ==
    IF IsRational(dist_sq)
    THEN LtTol(dist_sq.a, 2 * e)
    ELSE CASE ~LtTol(RootLowerBound(dist_sq), 2 * e) -> FALSE

\* the filter loop over line_intersections[i..]
RECURSIVE FilterOnSegment(_, _, _, _)
FilterOnSegment(points, i, segment, tolerance) ==
    IF i > Len(points)
    THEN <<>>
    ELSE LET point == points[i]
             closest == closest_point_of_root_point(segment, point)
             rest == FilterOnSegment(points, i + 1, segment, tolerance)
         IN  IF DistSqLtTol(RootPointDistSq(point, closest), tolerance)
             THEN <<point>> \o rest
             ELSE rest

circle_segment_intersection(circle, segment, tolerance) ==
    LET line == Line(segment.start,
                     Vector2D(RSub(segment.end.x, segment.start.x),
                              RSub(segment.end.y, segment.start.y)))
        line_intersections == circle_line_intersection(circle, line, tolerance)
    IN  RetPoints(FilterOnSegment(line_intersections.pts, 1, segment, tolerance))

(***************************************************************************)
(* Calls of line_polygon_intersection_points, circle_segment_intersection. *)
(***************************************************************************)
\* anchors before, inside and beyond the polygons of the grid
LineAnchors == {Pt(i, j) : i \in -1..(MaxPolyCoord + 1), j \in 0..MaxPolyCoord}

LinePolygonArgs == [point : LineAnchors, direction : Directions, vertices : Triangles]

\* segments of rational length, the zero-length ones included
RationalSegments == {LineSegment(a, Point2D(RAdd(a.x, d.x), RAdd(a.y, d.y))) :
                        a \in Anchors, d \in Directions}

CircleSegmentArgs == [circle : NearestCircles, segment : RationalSegments]

InitIntersect ==
    /\ pc = "call"
    /\ ret = Pending
    /\ \/ op = "line_polygon_intersection_points" /\ args \in LinePolygonArgs
       \/ op = "circle_segment_intersection" /\ args \in CircleSegmentArgs

LinePolygonIntersectionPoints ==
    /\ pc = "call"
    /\ op = "line_polygon_intersection_points"
    /\ ret' = line_polygon_intersection_points(Line(args.point, args.direction),
                                               args.vertices, IntersectTolerance)
    /\ pc' = "done"
    /\ UNCHANGED <<op, args>>

CircleSegmentIntersection ==
    /\ pc = "call"
    /\ op = "circle_segment_intersection"
    /\ ret' = circle_segment_intersection(args.circle, args.segment, CircleTolerance)
    /\ pc' = "done"
    /\ UNCHANGED <<op, args>>

NextIntersect == LinePolygonIntersectionPoints \/ CircleSegmentIntersection

SpecIntersect == InitIntersect /\ [][NextIntersect]_vars

(***************************************************************************)
(* Claims on line_polygon_intersection_points, circle_segment_intersection.*)
(***************************************************************************)
\* the cross product of the direction d and q - p
CrossAt(p, d, q) == RSub(RMul(d.x, RSub(q.y, p.y)), RMul(d.y, RSub(q.x, p.x)))

\* the points where the line through p along d crosses the edges it is not
\* parallel to: a + s (b - a) with cross(d, a + s (b - a) - p) = 0, 0 <= s <= 1
EdgeCrossings(p, d, vertices) ==
    LET n == Len(vertices)
        At(a, b) == LET s == RDiv(RNeg(CrossAt(p, d, a)),
                                  RSub(CrossAt(p, d, b), CrossAt(p, d, a)))
                    IN  IF RLe(Zero, s) /\ RLe(s, One)
                        THEN {Point2D(RAdd(a.x, RMul(s, RSub(b.x, a.x))),
                                      RAdd(a.y, RMul(s, RSub(b.y, a.y))))}
                        ELSE {}
    IN  UNION {IF CrossAt(p, d, vertices[i]) = CrossAt(p, d, vertices[(i % n) + 1])
               THEN {}
               ELSE At(vertices[i], vertices[(i % n) + 1]) : i \in 1..n}

\* C17: for a line of non-zero direction, line_polygon_intersection_points
\* returns, without raising, every point where the line meets a polygon edge,
\* wherever the anchor is, each point once, by increasing parameter along
\* the direction.
C17_LinePolygonAllCrossingsInOrder ==
    (DoneOp("line_polygon_intersection_points") /\ args.direction # Vector2D(Zero, Zero)) =>
        /\ ret.kind = "list"
        /\ EdgeCrossings(args.point, args.direction, args.vertices)
               \subseteq {ret.pts[i] : i \in 1..Len(ret.pts)}
        /\ \A i \in 1..Len(ret.pts) :
               /\ CrossAt(args.point, args.direction, ret.pts[i]) = Zero
               /\ OnBoundary(args.vertices, ret.pts[i])
        /\ \A i \in 1..Len(ret.pts) : \A j \in 1..Len(ret.pts) :
               i < j => /\ ret.pts[i] # ret.pts[j]
                        /\ RLe(LineParameter(Line(args.point, args.direction), ret.pts[i]),
                               LineParameter(Line(args.point, args.direction), ret.pts[j]))

\* the points common to the circle and the closed segment: start + t (end -
\* start) for the roots t in [0, 1] of |start + t (end - start) - center|^2 = r^2
CircleSegmentCommonPoints(circle, seg) ==
    LET dx == RSub(seg.end.x, seg.start.x)
        dy == RSub(seg.end.y, seg.start.y)
        fx == RSub(seg.start.x, circle.center.x)
        fy == RSub(seg.start.y, circle.center.y)
        qa == RAdd(RMul(dx, dx), RMul(dy, dy))
        qb == RMul(F(2), RAdd(RMul(dx, fx), RMul(dy, fy)))
        qc == RSub(RAdd(RMul(fx, fx), RMul(fy, fy)), RMul(circle.radius, circle.radius))
        disc == RSub(RMul(qb, qb), RMul(F(4), RMul(qa, qc)))
        PointAt(t) == SPoint(SAdd(SurdOf(seg.start.x), SMul(t, SurdOf(dx))),
                             SAdd(SurdOf(seg.start.y), SMul(t, SurdOf(dy))))
        Root(sign) == SMul(SAdd(SurdOf(RNeg(qb)), SMul(SurdOf(F(sign)), Sqrt(disc))),
                           SurdOf(RDiv(One, RMul(F(2), qa))))
    IN  IF qa = Zero
        THEN IF qc = Zero THEN {SPointOf(seg.start)} ELSE {}
        ELSE IF disc.n < 0
        THEN {}
        ELSE {PointAt(Root(sign)) : sign \in
                 {sg \in {-1, 1} : SSign(Root(sg)) >= 0 /\ ~SLt(SurdOf(One), Root(sg))}}

\* C18: for every circle and segment, a zero-length segment included,
\* circle_segment_intersection returns exactly the points common to the circle
\* and the segment: every returned point is at distance radius from the
\* centre and on the segment, and no common point is left out.
C18_CircleSegmentExactlyCommonPoints ==
    DoneOp("circle_segment_intersection") =>
        /\ ret.kind = "list"
        /\ {ret.pts[i] : i \in 1..Len(ret.pts)} =
               CircleSegmentCommonPoints(args.circle, args.segment)

(***************************************************************************)
(* Construction: Circle, Ellipse, Polygon, Triangle                        *)
(***************************************************************************)
RetCircle(center, radius) == [kind |-> "Circle", center |-> center, radius |-> radius]

RetEllipse(center, semi_major, semi_minor, rotation) ==
    [kind |-> "Ellipse", center |-> center, semi_major |-> semi_major,
     semi_minor |-> semi_minor, rotation |-> rotation]

RetTriangle(vertices) == [kind |-> "Triangle", vertices |-> vertices]

\* Circle.__init__
CircleInit(center, radius) ==
    IF RLt(radius, Zero) THEN Raise("ValueError") ELSE RetCircle(center, radius)

\* Ellipse.__init__ without the comparison of the two semi-axes
EllipseInit_unordered(center, semi_major, semi_minor, rotation) ==
    IF RLt(semi_major, Zero) \/ RLt(semi_minor, Zero)
    THEN Raise("ValueError")
    ELSE RetEllipse(center, semi_major, semi_minor, rotation)

\* Ellipse.__init__
EllipseInit(center, semi_major, semi_minor, rotation) ==
    IF RLt(semi_major, Zero) \/ RLt(semi_minor, Zero)
    THEN Raise("ValueError")
    ELSE IF RLt(semi_major, semi_minor)
         THEN Raise("ValueError")
         ELSE RetEllipse(center, semi_major, semi_minor, rotation)

TriangleVertices == 3

\* Triangle.__init__: its own count check, then Polygon.__init__
TriangleInit(vertices) ==
    IF Len(vertices) # TriangleVertices
    THEN Raise("ValueError")
    ELSE LET base == Polygon(vertices)
         IN  IF base.kind = "raise" THEN base ELSE RetTriangle(base.vertices)

(***************************************************************************)
(* Calls of the constructors                                               *)
(***************************************************************************)
MaxAxis == 2

\* radii and semi-axes: negative, zero and positive, halves included
AxisValues == {Rat(i, 2) : i \in (0 - 2 * MaxAxis)..(2 * MaxAxis)}

Rotations == {F(0), F(45)}

MaxVertexCount == 4

UnitPoints == {Pt(i, j) : i \in 0..1, j \in 0..1}

\* vertex lists of every length from 0 to MaxVertexCount
ConstructVertexLists == UNION {[1..n -> UnitPoints] : n \in 0..MaxVertexCount}

InitConstruct ==
    /\ pc = "call"
    /\ ret = Pending
    /\ \/ /\ op = "Circle"
          /\ args \in [center : UnitPoints, radius : AxisValues]
       \/ /\ op = "Ellipse"
          /\ args \in [center : {Pt(0, 0)}, semi_major : AxisValues,
                       semi_minor : AxisValues, rotation : Rotations]
       \/ /\ op \in {"Polygon", "Triangle"}
          /\ args \in [vertices : ConstructVertexLists]

ConstructCircle ==
    /\ pc = "call"
    /\ op = "Circle"
    /\ ret' = CircleInit(args.center, args.radius)
    /\ pc' = "done"
    /\ UNCHANGED <<op, args>>

ConstructEllipse ==
    /\ pc = "call"
    /\ op = "Ellipse"
    /\ ret' = EllipseInit(args.center, args.semi_major, args.semi_minor, args.rotation)
    /\ pc' = "done"
    /\ UNCHANGED <<op, args>>

ConstructPolygon ==
    /\ pc = "call"
    /\ op = "Polygon"
    /\ ret' = Polygon(args.vertices)
    /\ pc' = "done"
    /\ UNCHANGED <<op, args>>

ConstructTriangle ==
    /\ pc = "call"
    /\ op = "Triangle"
    /\ ret' = TriangleInit(args.vertices)
    /\ pc' = "done"
    /\ UNCHANGED <<op, args>>

NextConstruct ==
    \/ ConstructCircle
    \/ ConstructEllipse
    \/ ConstructPolygon
    \/ ConstructTriangle

SpecConstruct == InitConstruct /\ [][NextConstruct]_vars

IsValueError == ret.kind = "raise" /\ ret.exc = "ValueError"

\* C19: a Circle of negative radius, an Ellipse with a negative semi-axis or
\* semi_major < semi_minor, a Polygon of fewer than 3 vertices and a Triangle
\* of a vertex count other than 3 raise ValueError; every other input is
\* stored exactly as given (radius 0 included).
C19_InvalidShapesRaiseValidStoredAsGiven ==
    /\ DoneOp("Circle") =>
           IF args.radius.n < 0
           THEN IsValueError
           ELSE /\ ret.kind = "Circle"
                /\ ret.center = args.center
                /\ ret.radius = args.radius
    /\ DoneOp("Ellipse") =>
           IF \/ args.semi_major.n < 0
              \/ args.semi_minor.n < 0
              \/ args.semi_major.n * args.semi_minor.d
                     < args.semi_minor.n * args.semi_major.d
           THEN IsValueError
           ELSE /\ ret.kind = "Ellipse"
                /\ ret.center = args.center
                /\ ret.semi_major = args.semi_major
                /\ ret.semi_minor = args.semi_minor
                /\ ret.rotation = args.rotation
    /\ DoneOp("Polygon") =>
           IF Len(args.vertices) < 3
           THEN IsValueError
           ELSE ret.kind = "Polygon" /\ ret.vertices = args.vertices
    /\ DoneOp("Triangle") =>
           IF Len(args.vertices) # 3
           THEN IsValueError
           ELSE ret.kind = "Triangle" /\ ret.vertices = args.vertices

\* an ellipse whose semi_major is smaller than its non-negative semi_minor
\* has been rejected
C19_Witness ==
    /\ DoneOp("Ellipse")
    /\ args.semi_major = F(1)
    /\ args.semi_minor = F(2)
    /\ IsValueError

(***************************************************************************)
(* coordinate_ops.sort_points_by_angle                                     *)
(***************************************************************************)
\* the vector whose atan2 gives the polar angle of point about reference; a
\* point at the reference gets distance 0 and angle 0, the angle of (1, 0)
AngleVector(point, reference) ==
    LET v == Vector2D(RSub(point.x, reference.x), RSub(point.y, reference.y))
    IN  IF v.x = Zero /\ v.y = Zero THEN Vector2D(One, Zero) ELSE v

\* angle in [0, 180)
InFirstHalfTurn(v) == v.y.n > 0 \/ (v.y.n = 0 /\ v.x.n > 0)

VectorCross(v, w) == RSub(RMul(v.x, w.y), RMul(v.y, w.x))

\* angle_deg of v < angle_deg of w, both normalised to [0, 360)
AngleLess(v, w) ==
    IF InFirstHalfTurn(v) # InFirstHalfTurn(w)
    THEN InFirstHalfTurn(v)
    ELSE RLt(Zero, VectorCross(v, w))

AngleEqual(v, w) == ~AngleLess(v, w) /\ ~AngleLess(w, v)

\* key (angle, distance) of p below the key of q
PolarKeyLess(p, q, reference) ==
    LET v == AngleVector(p, reference)
        w == AngleVector(q, reference)
    IN  \/ AngleLess(v, w)
        \/ AngleEqual(v, w) /\ RLt(DistSqOf(p, reference), DistSqOf(q, reference))

\* p put into a sequence sorted by key, after the elements with an equal key
RECURSIVE InsertByAngle(_, _, _)
InsertByAngle(sorted, p, reference) ==
    IF sorted = <<>> THEN <<p>>
    ELSE IF PolarKeyLess(p, sorted[Len(sorted)], reference)
         THEN Append(InsertByAngle(SubSeq(sorted, 1, Len(sorted) - 1), p, reference),
                     sorted[Len(sorted)])
         ELSE Append(sorted, p)

\* angle_distance_point.sort(key=...), stable
RECURSIVE SortByAngle(_, _)
SortByAngle(points, reference) ==
    IF points = <<>> THEN <<>>
    ELSE InsertByAngle(SortByAngle(SubSeq(points, 1, Len(points) - 1), reference),
                       points[Len(points)], reference)

\* the list returned by sort_points_by_angle
sort_points_by_angle(points, reference, clockwise) ==
    IF points = <<>>
    THEN RetPoints(<<>>)
    ELSE IF clockwise
         THEN RetPoints(Reversed(SortByAngle(points, reference)))
         ELSE RetPoints(SortByAngle(points, reference))

(***************************************************************************)
(* Sequences of calls on the same objects.  args.now holds the objects the *)
(* caller passes (a polygon's vertex list, a list of points, a point and a *)
(* flag), args.given what they were before the first call, args.calls the  *)
(* number of calls made.  Each action is one call: it returns its result   *)
(* and leaves in args.now what the call's statements leave in the objects. *)
(***************************************************************************)
\* self.vertices after get_convex_hull had sorted it where it is
vertices_after_get_convex_hull_sorted_in_place(vertices) == SortedPoints(vertices)

\* self.vertices after get_convex_hull: sorted() builds a new list, the
\* chains lower and upper are local lists
vertices_after_get_convex_hull(vertices) == vertices

\* points after sort_points_by_angle: the list sorted and reversed is the
\* local list of (angle, distance, point) triples
points_after_sort_points_by_angle(points, reference, clockwise) == points

MaxCalls == 3

FrameVertexLists ==
    {vs \in [1..MinVertices -> UnitPoints] : vs[1] = Pt(1, 1)}
        \cup {HullExampleInput, ConvexExampleSquare, OverlapExample,
              <<Pt(0, 0), Pt(2, 1), Pt(0, 2), Pt(1, 1)>>}

FramePointLists == UNION {[1..n -> UnitPoints] : n \in 0..2}

FrameInputs ==
    [vertices : FrameVertexLists, points : FramePointLists,
     point : UnitPoints, clockwise : BOOLEAN]

\* the result of one call of the operation name on the objects in
FrameCall(name, in) ==
    CASE name = "get_convex_hull" -> get_convex_hull(in.vertices)
      [] name = "is_simple" -> RetBool(is_simple(in.vertices))
      [] name = "is_convex" -> RetBool(is_convex(in.vertices))
      [] name = "contains_point" -> RetBool(contains_point(in.vertices, in.point))
      [] name = "sort_points_by_angle" ->
             sort_points_by_angle(in.points, in.point, in.clockwise)
      [] name = "line_segment_intersection" ->
             line_segment_intersection(LineSegment(in.vertices[1], in.vertices[2]),
                                       LineSegment(in.point, in.vertices[3]),
                                       SegTolerance)
      [] name = "point_to_polygon_distance" ->
             point_to_polygon_distance(in.point, in.vertices)

InitFrame ==
    /\ pc = "call"
    /\ op = "none"
    /\ ret = Pending
    /\ \E in \in FrameInputs : args = [given |-> in, now |-> in, calls |-> 0]

\* a call that only reads its arguments
FrameReadOnly(name) ==
    /\ args.calls < MaxCalls
    /\ op' = name
    /\ ret' = FrameCall(name, args.now)
    /\ args' = [args EXCEPT !.calls = @ + 1]
    /\ pc' = "done"

FrameGetConvexHull ==
    /\ args.calls < MaxCalls
    /\ op' = "get_convex_hull"
    /\ ret' = FrameCall("get_convex_hull", args.now)
    /\ args' = [args EXCEPT !.calls = @ + 1,
                            !.now.vertices = vertices_after_get_convex_hull(@)]
    /\ pc' = "done"

FrameSortPointsByAngle ==
    /\ args.calls < MaxCalls
    /\ op' = "sort_points_by_angle"
    /\ ret' = FrameCall("sort_points_by_angle", args.now)
    /\ args' = [args EXCEPT !.calls = @ + 1,
                            !.now.points = points_after_sort_points_by_angle(
                                               @, args.now.point, args.now.clockwise)]
    /\ pc' = "done"

FrameIsSimple == FrameReadOnly("is_simple")

FrameIsConvex == FrameReadOnly("is_convex")

FrameContainsPoint == FrameReadOnly("contains_point")

FrameLineSegmentIntersection == FrameReadOnly("line_segment_intersection")

FramePointToPolygonDistance == FrameReadOnly("point_to_polygon_distance")

NextFrame ==
    \/ FrameGetConvexHull
    \/ FrameSortPointsByAngle
    \/ FrameIsSimple
    \/ FrameIsConvex
    \/ FrameContainsPoint
    \/ FrameLineSegmentIntersection
    \/ FramePointToPolygonDistance

SpecFrame == InitFrame /\ [][NextFrame]_vars

QueryTolerance == 10

\* nearest_point_on_geometry(first, geometry) where first is any geometry:
\* the branches for Line, LineSegment, Circle and Rectangle read first.x or
\* call first.distance_to, which only a Point2D has; the Polygon branch fails
\* on its first edge before it reads first
nearest_point_on_geometry_of(first, geometry, tolerance) ==
    IF /\ first.type # "Point2D"
       /\ geometry.type \in {"Line", "LineSegment", "Circle", "Rectangle"}
    THEN Raise("AttributeError")
    ELSE nearest_point_on_geometry(first.shape, geometry, tolerance)

\* min(dist1, dist2)
MinDist(dist1, dist2) == IF SLt(dist2, dist1) THEN dist2 ELSE dist1

\* r[1] is the result of nearest_point_on_geometry(geom1, geom2) and r[2] that
\* of nearest_point_on_geometry(geom2, geom1), which is called only when the
\* first call has returned
minimum_distance(geom1, geom2, tolerance) ==
    LET r == [i \in 1..2 |->
                 nearest_point_on_geometry_of(IF i = 1 THEN geom1 ELSE geom2,
                                              IF i = 1 THEN geom2 ELSE geom1,
                                              tolerance)]
    IN  IF r[1].kind = "raise"
        THEN r[1]
        ELSE IF r[2].kind = "raise"
             THEN r[2]
             ELSE RetFloat(MinDist(r[1].dist, r[2].dist))

\* min_dist <= distance + tolerance
LeWithTolerance(min_dist, distance, tolerance) ==
    LET diff == SSub(min_dist, SurdOf(distance))
    IN  CASE SSign(diff) <= 0 -> TRUE
          [] SSign(diff) > 0 /\ IsRational(diff) -> ~GtTol(diff.a, tolerance)

within_distance(geom1, geom2, distance, tolerance) ==
    LET min_dist == minimum_distance(geom1, geom2, tolerance)
    IN  IF min_dist.kind = "raise"
        THEN min_dist
        ELSE RetBool(LeWithTolerance(min_dist.v, distance, tolerance))

(***************************************************************************)
(* Calls of minimum_distance and within_distance                           *)
(***************************************************************************)
QueryExamplePoint == Geometry("Point2D", Pt(10, 0))

QueryExampleCircle == Geometry("Circle", Circle(Pt(0, 0), F(5)))

QueryGeometries ==
    {Geometry("Point2D", p) : p \in UnitPoints}
        \cup {Geometry("Circle", Circle(c, r)) : c \in UnitPoints, r \in {F(0), F(1)}}
        \cup {Geometry("LineSegment", LineSegment(a, b)) : a \in UnitPoints, b \in UnitPoints}
        \cup {Geometry("Line", Line(Pt(0, 0), d)) : d \in {Vector2D(F(1), F(0)), Vector2D(F(0), F(1))}}
        \cup {Geometry("Rectangle", ConvexExampleSquare), Geometry("Polygon", ConvexExampleSquare),
              QueryExamplePoint, QueryExampleCircle}

Thresholds == {F(0), F(1), F(3)}

InitQuery ==
    /\ pc = "call"
    /\ ret = Pending
    /\ \/ /\ op = "minimum_distance"
          /\ args \in [geom1 : QueryGeometries, geom2 : QueryGeometries]
       \/ /\ op = "within_distance"
          /\ args \in [geom1 : QueryGeometries, geom2 : QueryGeometries,
                       distance : Thresholds]

MinimumDistance ==
    /\ pc = "call"
    /\ op = "minimum_distance"
    /\ ret' = minimum_distance(args.geom1, args.geom2, QueryTolerance)
    /\ pc' = "done"
    /\ UNCHANGED <<op, args>>

WithinDistance ==
    /\ pc = "call"
    /\ op = "within_distance"
    /\ ret' = within_distance(args.geom1, args.geom2, args.distance, QueryTolerance)
    /\ pc' = "done"
    /\ UNCHANGED <<op, args>>

NextQuery ==
    \/ MinimumDistance
    \/ WithinDistance

SpecQuery == InitQuery /\ [][NextQuery]_vars

SupportedTypes == {"Point2D", "Line", "LineSegment", "Circle", "Rectangle", "Polygon"}

\* |distance from p to the centre - radius|, the distance from p to the circle
PointCircleDistance(p, circle) ==
    LET d == SSub(distance_to(p, circle.center), SurdOf(circle.radius))
    IN  IF SSign(d) < 0 THEN SSub(SurdOf(Zero), d) ELSE d

\* C21: minimum_distance returns a distance for every pair of supported
\* geometry types, and for a point and a circle it returns the distance from
\* the point to the circle (5 for the point (10,0) and the circle of centre
\* (0,0) and radius 5).
C21_MinimumDistanceOfSupportedPairs ==
    (DoneOp("minimum_distance")
        /\ args.geom1.type \in SupportedTypes /\ args.geom2.type \in SupportedTypes
        /\ {args.geom1.type, args.geom2.type} # {"Point2D"}) =>
        /\ ret.kind = "float"
        /\ (args.geom1.type = "Point2D" /\ args.geom2.type = "Circle") =>
               ret.v = PointCircleDistance(args.geom1.shape, args.geom2.shape)
        /\ (args.geom1 = QueryExamplePoint /\ args.geom2 = QueryExampleCircle) =>
               ret.v = SurdOf(F(5))

(***************************************************************************)
(* geometry_utils.segments_distance, geometry_utils.segments_closest_points *)
(***************************************************************************)
RetPair(p1, p2) == [kind |-> "pair", p1 |-> p1, p2 |-> p2]

\* min(d1, d2, d3, d4) of distances given as roots
RECURSIVE MinRoot(_)
MinRoot(ds) ==
    IF Len(ds) = 1 THEN ds[1]
    ELSE LET m == MinRoot(Tail(ds))
         IN  IF RootLt(m, ds[1]) THEN m ELSE ds[1]

segments_distance(s1, s2) ==
    IF line_segment_intersection(s1, s2, SegTolerance) # None
    THEN RetFloat(SurdOf(Zero))
    ELSE RetFloat(MinRoot(<<point_to_segment_distance(s1.start, s2),
                            point_to_segment_distance(s1.end, s2),
                            point_to_segment_distance(s2.start, s1),
                            point_to_segment_distance(s2.end, s1)>>))

\* the candidate pairs in the order of the list: the last two hold the point
\* of s2 first and the end point of s1 second
ClosestCandidates(s1, s2) ==
    <<<<get_closest_point(s1, s2.start), s2.start>>,
      <<get_closest_point(s1, s2.end), s2.end>>,
      <<get_closest_point(s2, s1.start), s1.start>>,
      <<get_closest_point(s2, s1.end), s1.end>>>>

\* the loop over candidates[i..]: dist < min_dist, compared on the squares
RECURSIVE BestPair(_, _, _)
BestPair(candidates, i, best_pair) ==
    IF i > Len(candidates)
    THEN best_pair
    ELSE IF RLt(DistSqOf(candidates[i][1], candidates[i][2]),
                DistSqOf(best_pair[1], best_pair[2]))
         THEN BestPair(candidates, i + 1, candidates[i])
         ELSE BestPair(candidates, i + 1, best_pair)

segments_closest_points(s1, s2) ==
    LET intersection == line_segment_intersection(s1, s2, SegTolerance)
    IN  IF intersection # None
        THEN RetPair(intersection.p, intersection.p)
        ELSE LET candidates == ClosestCandidates(s1, s2)
                 best_pair == BestPair(candidates, 2, candidates[1])
             IN  RetPair(best_pair[1], best_pair[2])

(***************************************************************************)
(* Calls on pairs of segments                                              *)
(***************************************************************************)
InitSegments ==
    /\ pc = "call"
    /\ ret = Pending
    /\ op \in {"segments_closest_points", "segments_distance"}
    /\ args \in [s1 : GridSegments, s2 : GridSegments]

SegmentsClosestPoints ==
    /\ pc = "call"
    /\ op = "segments_closest_points"
    /\ ret' = segments_closest_points(args.s1, args.s2)
    /\ pc' = "done"
    /\ UNCHANGED <<op, args>>

SegmentsDistance ==
    /\ pc = "call"
    /\ op = "segments_distance"
    /\ ret' = segments_distance(args.s1, args.s2)
    /\ pc' = "done"
    /\ UNCHANGED <<op, args>>

NextSegments ==
    \/ SegmentsClosestPoints
    \/ SegmentsDistance

SpecSegments == InitSegments /\ [][NextSegments]_vars

\* the square of the least distance between two closed segments
SegmentsDistSq(s1, s2) ==
    IF SegmentsMeet(s1.start, s1.end, s2.start, s2.end)
    THEN Zero
    ELSE LET ds == {SegDistSq(s1.start, s2.start, s2.end), SegDistSq(s1.end, s2.start, s2.end),
                    SegDistSq(s2.start, s1.start, s1.end), SegDistSq(s2.end, s1.start, s1.end)}
         IN  CHOOSE m \in ds : \A d \in ds : RLe(m, d)

\* C22: segments_closest_points returns (p1, p2) with p1 on s1 and p2 on s2
\* at the minimum distance between the segments, which is the distance
\* segments_distance returns; both are the intersection point when the
\* segments cross.
C22_ClosestPointsOnTheirSegments ==
    DoneOp("segments_closest_points") =>
        /\ ret.kind = "pair"
        /\ OnSegment(ret.p1, args.s1)
        /\ OnSegment(ret.p2, args.s2)
        /\ DistSq(ret.p1, ret.p2) = SegmentsDistSq(args.s1, args.s2)
        /\ DistSq(ret.p1, ret.p2) = RootSq(segments_distance(args.s1, args.s2).v)
        /\ line_segment_intersection(args.s1, args.s2, SegTolerance) # None =>
               ret.p1 = ret.p2

(***************************************************************************)
(* Triangle.from_sides                                                     *)
(***************************************************************************)
Two == F(2)

\* Triangle.from_sides: the base of length a on the x axis and the third
\* vertex above or below its midpoint, at the height 2 * area / a
from_sides(a, b, c) ==
    IF RLe(a, Zero) \/ RLe(b, Zero) \/ RLe(c, Zero)
    THEN Raise("ValueError")
    ELSE IF RLe(RAdd(a, b), c) \/ RLe(RAdd(a, c), b) \/ RLe(RAdd(b, c), a)
    THEN Raise("ValueError")
    ELSE LET s == RDiv(RAdd(RAdd(a, b), c), Two)
             heron == RMul(RMul(s, RSub(s, a)), RMul(RSub(s, b), RSub(s, c)))
             area == Sqrt(RMax(heron, Zero))
             p1 == SPointOf(Pt(0, 0))
             p2 == SPointOf(Point2D(a, Zero))
         IN  IF RootLtTol(area, PolygonTolerance)
             THEN TriangleInit(<<p1, p2, SPointOf(Point2D(RDiv(a, Two), Zero))>>)
             ELSE LET height == SMul(SurdOf(RDiv(Two, a)), area)
                      mid_x == RDiv(a, Two)
                      apex_sq == RAdd(RMul(mid_x, mid_x), RootSq(height))
                      p3 == IF RLt(RAbs(RSub(RMul(b, b), apex_sq)),
                                   RAbs(RSub(RMul(c, c), apex_sq)))
                            THEN SPoint(SurdOf(mid_x), height)
                            ELSE SPoint(SurdOf(mid_x), SSub(SurdOf(Zero), height))
                  IN  TriangleInit(<<p1, p2, p3>>)

(***************************************************************************)
(* Calls of Triangle.from_sides                                            *)
(***************************************************************************)
MaxSide == 5

SideLengths == {F(i) : i \in 0..MaxSide}

InitFromSides ==
    /\ pc = "call"
    /\ ret = Pending
    /\ op = "Triangle.from_sides"
    /\ args \in [a : SideLengths, b : SideLengths, c : SideLengths]

FromSides ==
    /\ pc = "call"
    /\ op = "Triangle.from_sides"
    /\ ret' = from_sides(args.a, args.b, args.c)
    /\ pc' = "done"
    /\ UNCHANGED <<op, args>>

NextFromSides == FromSides

SpecFromSides == InitFromSides /\ [][NextFromSides]_vars

\* the square of the distance between two points with root coordinates
RootDistSq(p, q) ==
    SAdd(SMul(SSub(p.x, q.x), SSub(p.x, q.x)), SMul(SSub(p.y, q.y), SSub(p.y, q.y)))

\* the squares of the three side lengths
SideSquares(vertices) ==
    <<RootDistSq(vertices[1], vertices[2]), RootDistSq(vertices[2], vertices[3]),
      RootDistSq(vertices[3], vertices[1])>>

\* the two triples hold the same values, in some order
SameInSomeOrder(u, v) ==
    \E i, j, k \in 1..3 :
        {i, j, k} = 1..3 /\ u[1] = v[i] /\ u[2] = v[j] /\ u[3] = v[k]

StrictTriangle(a, b, c) ==
    /\ RLt(Zero, a) /\ RLt(Zero, b) /\ RLt(Zero, c)
    /\ RLt(c, RAdd(a, b)) /\ RLt(b, RAdd(a, c)) /\ RLt(a, RAdd(b, c))

\* C23: for positive a, b, c with the strict triangle inequality, from_sides
\* returns a triangle whose side lengths are a, b and c in some order.
C23_FromSidesHasTheGivenSides ==
    (DoneOp("Triangle.from_sides") /\ StrictTriangle(args.a, args.b, args.c)) =>
        /\ ret.kind = "Triangle"
        /\ SameInSomeOrder(SideSquares(ret.vertices),
                           <<SurdOf(RMul(args.a, args.a)), SurdOf(RMul(args.b, args.b)),
                             SurdOf(RMul(args.c, args.c))>>)

(***************************************************************************)
(* Triangle.orthocenter                                                    *)
(***************************************************************************)
Three == F(3)

\* Polygon.get_center of a triangle: the mean of the vertices
get_center(vertices) ==
    Point2D(RDiv(RAdd(RAdd(vertices[1].x, vertices[2].x), vertices[3].x), Three),
            RDiv(RAdd(RAdd(vertices[1].y, vertices[2].y), vertices[3].y), Three))

orthocenter(vertices) ==
    LET p1 == vertices[1]
        p2 == vertices[2]
        p3 == vertices[3]
        A == RSub(p2.x, p1.x)
        B == RSub(p2.y, p1.y)
        C == RSub(p3.x, p1.x)
        D == RSub(p3.y, p1.y)
        E == RAdd(RMul(A, RAdd(p1.x, p2.x)), RMul(B, RAdd(p1.y, p2.y)))
        FF == RAdd(RMul(C, RAdd(p1.x, p3.x)), RMul(D, RAdd(p1.y, p3.y)))
        G == RMul(Two, RAdd(RMul(A, RSub(p2.x, p3.x)), RMul(B, RSub(p2.y, p3.y))))
    IN  IF AbsLtTol(G, PolygonTolerance)
        THEN RetPoint(get_center(vertices))
        ELSE RetPoint(Point2D(RDiv(RSub(RMul(D, E), RMul(B, FF)), G),
                              RDiv(RSub(RMul(A, FF), RMul(C, E)), G)))

(***************************************************************************)
(* Calls of Triangle.orthocenter                                           *)
(***************************************************************************)
InitOrthocenter ==
    /\ pc = "call"
    /\ ret = Pending
    /\ op = "Triangle.orthocenter"
    /\ args \in [vertices : ShapeTriangles]

Orthocenter ==
    /\ pc = "call"
    /\ op = "Triangle.orthocenter"
    /\ ret' = orthocenter(args.vertices)
    /\ pc' = "done"
    /\ UNCHANGED <<op, args>>

NextOrthocenter == Orthocenter

SpecOrthocenter == InitOrthocenter /\ [][NextOrthocenter]_vars

\* the line from vertex v to h is perpendicular to the side a-b
OnAltitude(h, v, a, b) ==
    RAdd(RMul(RSub(h.x, v.x), RSub(b.x, a.x)), RMul(RSub(h.y, v.y), RSub(b.y, a.y))) = Zero

\* C24: for a triangle whose vertices are not collinear, orthocenter returns
\* the common point of the three altitudes; for a right triangle this is the
\* vertex of the right angle.
C24_OrthocenterOnTheThreeAltitudes ==
    (DoneOp("Triangle.orthocenter")
        /\ Cross3(args.vertices[1], args.vertices[2], args.vertices[3]) # Zero) =>
        /\ ret.kind = "Point2D"
        /\ OnAltitude(ret.p, args.vertices[1], args.vertices[2], args.vertices[3])
        /\ OnAltitude(ret.p, args.vertices[2], args.vertices[3], args.vertices[1])
        /\ OnAltitude(ret.p, args.vertices[3], args.vertices[1], args.vertices[2])
        /\ \A i \in 1..3 :
               Dot3(args.vertices[i], args.vertices[(i % 3) + 1],
                    args.vertices[((i + 1) % 3) + 1]) = Zero => ret.p = args.vertices[i]

(***************************************************************************)
(* angle_ops.angle_between_three_points.  An angle is kept exactly, as the *)
(* number of full turns added to the polar angle in [0, 360) of a non-zero *)
(* vector dir: the value is 360 * turns + (polar angle of dir).            *)
(***************************************************************************)
AngleTolerance == 10

RetDegrees(turns, dir) == [kind |-> "degrees", turns |-> turns, dir |-> dir]

\* Vector2D.angle_rad: atan2(y, x) % (2 * pi)
angle_rad(v) == [turns |-> 0, dir |-> v]

\* angle2 - angle1 for two angles in [0, 2 * pi): the polar angle of dir2
\* turned back by that of dir1, less one turn when angle2 < angle1
AngleDifference(angle2, angle1) ==
    LET v == angle1.dir
        w == angle2.dir
        dir == Vector2D(RAdd(RMul(v.x, w.x), RMul(v.y, w.y)), VectorCross(v, w))
    IN  [turns |-> IF AngleLess(w, v) THEN -1 ELSE 0, dir |-> dir]

\* while angle_diff < 0: angle_diff += 360.0
RECURSIVE RaiseToZero(_)
RaiseToZero(angle) ==
    IF angle.turns < 0 THEN RaiseToZero([angle EXCEPT !.turns = @ + 1]) ELSE angle

\* while angle_diff >= 360.0: angle_diff -= 360.0
RECURSIVE LowerBelowTurn(_)
LowerBelowTurn(angle) ==
    IF angle.turns >= 1 THEN LowerBelowTurn([angle EXCEPT !.turns = @ - 1]) ELSE angle

\* the function without its two normalising loops
angle_between_three_points_raw(p1, p2, p3, tolerance) ==
    LET v1 == Vector2D(RSub(p1.x, p2.x), RSub(p1.y, p2.y))
        v2 == Vector2D(RSub(p3.x, p2.x), RSub(p3.y, p2.y))
    IN  IF RootLtTol(VectorLength(v1), tolerance) \/ RootLtTol(VectorLength(v2), tolerance)
        THEN RetDegrees(0, Vector2D(One, Zero))
        ELSE LET angle_diff == AngleDifference(angle_rad(v2), angle_rad(v1))
             IN  RetDegrees(angle_diff.turns, angle_diff.dir)

angle_between_three_points(p1, p2, p3, tolerance) ==
    LET v1 == Vector2D(RSub(p1.x, p2.x), RSub(p1.y, p2.y))
        v2 == Vector2D(RSub(p3.x, p2.x), RSub(p3.y, p2.y))
    IN  IF RootLtTol(VectorLength(v1), tolerance) \/ RootLtTol(VectorLength(v2), tolerance)
        THEN RetDegrees(0, Vector2D(One, Zero))
        ELSE LET angle_diff == AngleDifference(angle_rad(v2), angle_rad(v1))
                 normal == LowerBelowTurn(RaiseToZero(angle_diff))
             IN  RetDegrees(normal.turns, normal.dir)

(***************************************************************************)
(* Calls of angle_between_three_points                                     *)
(***************************************************************************)
MaxAngleCoord == 2

AnglePoints == {Pt(i, j) : i \in -MaxAngleCoord..MaxAngleCoord,
                           j \in -MaxAngleCoord..MaxAngleCoord}

InitAngle ==
    /\ pc = "call"
    /\ ret = Pending
    /\ op = "angle_between_three_points"
    /\ args \in [p1 : AnglePoints, p2 : UnitPoints, p3 : AnglePoints]

AngleBetweenThreePoints ==
    /\ pc = "call"
    /\ op = "angle_between_three_points"
    /\ ret' = angle_between_three_points(args.p1, args.p2, args.p3, AngleTolerance)
    /\ pc' = "done"
    /\ UNCHANGED <<op, args>>

NextAngle == AngleBetweenThreePoints

SpecAngle == InitAngle /\ [][NextAngle]_vars

\* v turned counter-clockwise by the polar angle of dir, times |dir|
Turned(v, dir) ==
    Vector2D(RSub(RMul(v.x, dir.x), RMul(v.y, dir.y)),
             RAdd(RMul(v.x, dir.y), RMul(v.y, dir.x)))

\* w is a positive multiple of v
SameRay(v, w) ==
    VectorCross(v, w) = Zero /\ RLt(Zero, RAdd(RMul(v.x, w.x), RMul(v.y, w.y)))

PolarTolerance == 10

RetPolar(distance, angle) == [kind |-> "polar", distance |-> distance, angle |-> angle]

\* math.degrees(math.atan2(v.y, v.x)), in (-180, 180]: one turn below the
\* polar angle in [0, 360) when that angle is above 180
atan2_degrees(v) == [turns |-> IF InFirstHalfTurn(v) \/ v.y = Zero THEN 0 ELSE -1, dir |-> v]

\* if angle_deg < 0: angle_deg += 360.0
AddTurnIfNegative(angle) == IF angle.turns < 0 THEN [angle EXCEPT !.turns = @ + 1] ELSE angle

cartesian_to_polar(point, reference, tolerance) ==
    LET v == Vector2D(RSub(point.x, reference.x), RSub(point.y, reference.y))
        distance == VectorLength(v)
    IN  IF RootLtTol(distance, tolerance)
        THEN RetPolar(SurdOf(Zero), [turns |-> 0, dir |-> Vector2D(One, Zero)])
        ELSE RetPolar(distance, AddTurnIfNegative(atan2_degrees(v)))

\* distance * cos(angle) and distance * sin(angle): the cosine and the sine of
\* the polar angle of dir are dir.x / |dir| and dir.y / |dir|, whatever the
\* number of turns
TimesCosSin(distance, angle) ==
    LET dir == angle.dir
        len_sq == RAdd(RMul(dir.x, dir.x), RMul(dir.y, dir.y))
        scale == SMul(SurdOf(RDiv(One, len_sq)), SMul(distance, VectorLength(dir)))
    IN  <<SMul(scale, SurdOf(dir.x)), SMul(scale, SurdOf(dir.y))>>

\* polar_to_cartesian that leaves the reference point out
polar_to_cartesian_about_origin(distance, angle_deg, reference) ==
    LET offset == TimesCosSin(distance, angle_deg)
    IN  [kind |-> "Point2D", p |-> SPoint(offset[1], offset[2])]

polar_to_cartesian(distance, angle_deg, reference) ==
    LET offset == TimesCosSin(distance, angle_deg)
    IN  [kind |-> "Point2D",
         p |-> SPoint(SAdd(SurdOf(reference.x), offset[1]),
                      SAdd(SurdOf(reference.y), offset[2]))]

(***************************************************************************)
(* Calls: cartesian_to_polar, then polar_to_cartesian on its result        *)
(***************************************************************************)
InitPolar ==
    /\ pc = "call"
    /\ ret = Pending
    /\ op = "cartesian_to_polar"
    /\ args \in [point : AnglePoints, reference : AnglePoints]

CartesianToPolar ==
    /\ pc = "call"
    /\ op = "cartesian_to_polar"
    /\ ret' = cartesian_to_polar(args.point, args.reference, PolarTolerance)
    /\ pc' = "polar"
    /\ UNCHANGED <<op, args>>

PolarToCartesian ==
    /\ pc = "polar"
    /\ op' = "polar_to_cartesian"
    /\ ret' = polar_to_cartesian(ret.distance, ret.angle, args.reference)
    /\ pc' = "done"
    /\ UNCHANGED args

NextPolar ==
    \/ CartesianToPolar
    \/ PolarToCartesian

SpecPolar == InitPolar /\ [][NextPolar]_vars

EllipseLineTolerance == 10

Four == F(4)

\* obj.name exists: the record of an object holds the fields __init__ sets
HasAttribute(obj, name) == name \in DOMAIN obj

\* the body of ellipse_line_intersection after its reads of the ellipse
EllipseLineFromAxes(center, a, b, line, tolerance) ==
    LET p0 == line.point
        dx == line.direction.x
        dy == line.direction.y
        x0 == RSub(p0.x, center.x)
        y0 == RSub(p0.y, center.y)
    IN  IF a = Zero \/ b = Zero
        THEN Raise("ZeroDivisionError")
        ELSE LET aa == RMul(a, a)
                 bb == RMul(b, b)
                 A == RAdd(RDiv(RMul(dx, dx), aa), RDiv(RMul(dy, dy), bb))
                 B == RAdd(RDiv(RMul(Two, RMul(x0, dx)), aa),
                           RDiv(RMul(Two, RMul(y0, dy)), bb))
                 C == RSub(RAdd(RDiv(RMul(x0, x0), aa), RDiv(RMul(y0, y0), bb)), One)
                 discriminant == RSub(RMul(B, B), RMul(Four, RMul(A, C)))
             IN  IF GtTol(RNeg(discriminant), tolerance)
                 THEN RetPoints(<<>>)
                 ELSE IF AbsLtTol(A, tolerance)
                 THEN RetPoints(<<>>)
                 ELSE IF LtTol(discriminant, tolerance)
                 THEN LET t == RDiv(RNeg(B), RMul(Two, A))
                      IN  RetPoints(<<SPointOf(PointAdd(p0, RMul(t, dx), RMul(t, dy)))>>)
                 ELSE LET sqrt_disc == Sqrt(RMax(Zero, discriminant))
                          half == SurdOf(RDiv(One, RMul(Two, A)))
                          t1 == SMul(half, SAdd(SurdOf(RNeg(B)), sqrt_disc))
                          t2 == SMul(half, SSub(SurdOf(RNeg(B)), sqrt_disc))
                      IN  RetPoints(<<SPoint(SAdd(SurdOf(p0.x), SMul(t1, SurdOf(dx))),
                                             SAdd(SurdOf(p0.y), SMul(t1, SurdOf(dy)))),
                                      SPoint(SAdd(SurdOf(p0.x), SMul(t2, SurdOf(dx))),
                                             SAdd(SurdOf(p0.y), SMul(t2, SurdOf(dy))))>>)

\* the function reads ellipse.semi_major_axis, ellipse.semi_minor_axis and
\* ellipse.rotation_angle, in this order, before anything else
ellipse_line_intersection(ellipse, line, tolerance) ==
    IF \/ ~HasAttribute(ellipse, "semi_major_axis")
       \/ ~HasAttribute(ellipse, "semi_minor_axis")
       \/ ~HasAttribute(ellipse, "rotation_angle")
    THEN Raise("AttributeError")
    ELSE EllipseLineFromAxes(ellipse.center, ellipse.semi_major_axis,
                             ellipse.semi_minor_axis, line, tolerance)

(***************************************************************************)
(* Calls of ellipse_line_intersection                                      *)
(***************************************************************************)
\* rotations by a multiple of 90 degrees keep the coordinates rational
RightAngles == {F(0), F(90)}

EllipseInputs ==
    {e \in {EllipseInit(c, a, b, r) :
                c \in {Pt(0, 0), Pt(1, 1)}, a \in {F(1), F(2)}, b \in {F(1), F(2)},
                r \in RightAngles} :
        e.kind = "Ellipse"}

EllipseLines == {Line(p, d) : p \in UnitPoints, d \in NonZeroDirections}

InitEllipse ==
    /\ pc = "call"
    /\ ret = Pending
    /\ op = "ellipse_line_intersection"
    /\ args \in [ellipse : EllipseInputs, line : EllipseLines]

EllipseLineIntersection ==
    /\ pc = "call"
    /\ op = "ellipse_line_intersection"
    /\ ret' = ellipse_line_intersection(args.ellipse, args.line, EllipseLineTolerance)
    /\ pc' = "done"
    /\ UNCHANGED <<op, args>>

NextEllipse == EllipseLineIntersection

SpecEllipse == InitEllipse /\ [][NextEllipse]_vars

\* the coordinates of the vector (x, y) along the axes of an ellipse turned
\* by 0 or by 90 degrees
AlongAxes(x, y, rotation) ==
    IF rotation = F(0) THEN <<x, y>> ELSE <<y, SSub(SurdOf(Zero), x)>>

\* b^2 u^2 + a^2 v^2 - a^2 b^2 for the point p in the axes of the ellipse:
\* zero on the ellipse
EllipseValue(p, e) ==
    LET uv == AlongAxes(SSub(p.x, SurdOf(e.center.x)), SSub(p.y, SurdOf(e.center.y)),
                        e.rotation)
        aa == SurdOf(RMul(e.semi_major, e.semi_major))
        bb == SurdOf(RMul(e.semi_minor, e.semi_minor))
    IN  SSub(SAdd(SMul(bb, SMul(uv[1], uv[1])), SMul(aa, SMul(uv[2], uv[2]))),
             SMul(aa, bb))

\* the discriminant of EllipseValue along the line, up to a positive factor
EllipseDiscriminant(e, line) ==
    LET d == AlongAxes(SurdOf(line.direction.x), SurdOf(line.direction.y), e.rotation)
        o == AlongAxes(SurdOf(RSub(line.point.x, e.center.x)),
                       SurdOf(RSub(line.point.y, e.center.y)), e.rotation)
        aa == RMul(e.semi_major, e.semi_major)
        bb == RMul(e.semi_minor, e.semi_minor)
        A == RAdd(RMul(bb, RMul(d[1].a, d[1].a)), RMul(aa, RMul(d[2].a, d[2].a)))
        B == RMul(Two, RAdd(RMul(bb, RMul(o[1].a, d[1].a)), RMul(aa, RMul(o[2].a, d[2].a))))
        C == RSub(RAdd(RMul(bb, RMul(o[1].a, o[1].a)), RMul(aa, RMul(o[2].a, o[2].a))),
                  RMul(aa, bb))
    IN  RSub(RMul(B, B), RMul(Four, RMul(A, C)))

\* p is on the line: (p - point) x direction = 0
RootPointOnLine(p, line) ==
    SSub(SMul(SSub(p.x, SurdOf(line.point.x)), SurdOf(line.direction.y)),
         SMul(SSub(p.y, SurdOf(line.point.y)), SurdOf(line.direction.x))) = SurdOf(Zero)

\* C27: for an ellipse built by its constructor, rotated or not, and a line of
\* non-zero direction, ellipse_line_intersection returns no point, one point
\* or two points as the discriminant is negative, zero or positive, and every
\* returned point is on the line and on the rotated ellipse.
C27_EllipseLinePointsByDiscriminant ==
    DoneOp("ellipse_line_intersection") =>
        /\ ret.kind = "list"
        /\ Len(ret.pts) = CASE EllipseDiscriminant(args.ellipse, args.line).n < 0 -> 0
                            [] EllipseDiscriminant(args.ellipse, args.line).n = 0 -> 1
                            [] OTHER -> 2
        /\ \A i \in 1..Len(ret.pts) :
               /\ RootPointOnLine(ret.pts[i], args.line)
               /\ EllipseValue(ret.pts[i], args.ellipse) = SurdOf(Zero)

\* C28: get_convex_hull returns a Polygon and raises nothing for every
\* polygon that can be constructed, also when all its vertices are collinear
\* or coincide.
C28_ConvexHullReturnsPolygonForEveryPolygon ==
    (DoneOp("Polygon.get_convex_hull") /\ Polygon(args.vertices).kind = "Polygon") =>
        ret.kind = "Polygon"

(***************************************************************************)
(* A polygon and the list it was constructed from.  args.heap holds the    *)
(* list object of the caller, args.polygon the fields of the polygon (a    *)
(* field that holds a list holds the name of a list object of the heap),   *)
(* args.given the sequence passed to the constructor and args.changes the  *)
(* number of changes the caller has made to its list since.                *)
(***************************************************************************)
\* Polygon.__init__ on the list object named ref: self.vertices = vertices
\* stores the object itself
PolygonObject(heap, ref) ==
    IF Len(heap[ref]) < MinVertices THEN Raise("ValueError") ELSE [vertices |-> ref]

\* polygon.vertices
VerticesOf(heap, polygon) == heap[polygon.vertices]

RetInt(n) == [kind |-> "int", n |-> n]

\* Polygon.get_vertex_count
get_vertex_count(vertices) == Len(vertices)

MaxChanges == 2

CallerLists == UNION {[1..n -> UnitPoints] : n \in 2..MinVertices}

InitAlias ==
    /\ pc = "call"
    /\ op = "none"
    /\ ret = Pending
    /\ \E vs \in CallerLists :
           args = [heap |-> [caller_list |-> vs], polygon |-> None,
                   given |-> vs, changes |-> 0]

\* polygon = Polygon(caller_list)
AliasConstruct ==
    /\ pc = "call"
    /\ op' = "Polygon"
    /\ LET r == PolygonObject(args.heap, "caller_list")
       IN  IF r = Raise("ValueError")
           THEN /\ ret' = r
                /\ pc' = "raised"
                /\ UNCHANGED args
           ELSE /\ ret' = None
                /\ pc' = "built"
                /\ args' = [args EXCEPT !.polygon = r]

\* caller_list.append(p)
CallerAppend ==
    /\ pc = "built"
    /\ args.changes < MaxChanges
    /\ \E p \in UnitPoints :
           args' = [args EXCEPT !.heap.caller_list = Append(@, p), !.changes = @ + 1]
    /\ op' = "list.append"
    /\ ret' = None
    /\ UNCHANGED pc

\* caller_list.pop()
CallerPop ==
    /\ pc = "built"
    /\ args.changes < MaxChanges
    /\ args.heap.caller_list # <<>>
    /\ args' = [args EXCEPT !.heap.caller_list = SubSeq(@, 1, Len(@) - 1),
                            !.changes = @ + 1]
    /\ op' = "list.pop"
    /\ ret' = None
    /\ UNCHANGED pc

\* caller_list.reverse()
CallerReverse ==
    /\ pc = "built"
    /\ args.changes < MaxChanges
    /\ args' = [args EXCEPT !.heap.caller_list = Reversed(@), !.changes = @ + 1]
    /\ op' = "list.reverse"
    /\ ret' = None
    /\ UNCHANGED pc

\* polygon.get_vertex_count()
AliasGetVertexCount ==
    /\ pc = "built"
    /\ op' = "Polygon.get_vertex_count"
    /\ ret' = RetInt(get_vertex_count(VerticesOf(args.heap, args.polygon)))
    /\ UNCHANGED <<args, pc>>

\* polygon.is_convex()
AliasIsConvex ==
    /\ pc = "built"
    /\ op' = "Polygon.is_convex"
    /\ ret' = RetBool(is_convex(VerticesOf(args.heap, args.polygon)))
    /\ UNCHANGED <<args, pc>>

NextAlias ==
    \/ AliasConstruct
    \/ CallerAppend
    \/ CallerPop
    \/ CallerReverse
    \/ AliasGetVertexCount
    \/ AliasIsConvex

SpecAlias == InitAlias /\ [][NextAlias]_vars

\* C29: after Polygon(vertices) has returned, the polygon has at least 3
\* vertices and the vertex sequence it was constructed with, and its
\* operations return what they return for that sequence, whatever the caller
\* does to its list afterwards.
C29_PolygonKeepsItsVertices ==
    pc = "built" =>
        /\ Len(VerticesOf(args.heap, args.polygon)) >= 3
        /\ VerticesOf(args.heap, args.polygon) = args.given
        /\ op = "Polygon.get_vertex_count" => ret = RetInt(Len(args.given))
        /\ op = "Polygon.is_convex" => ret = RetBool(is_convex(args.given))

\* C30: a polygon is_convex() returns True for is one is_simple() returns True
\* for, and no two of its non-adjacent edges cross.
C30_ConvexImpliesSimple ==
    (DoneOp("Polygon.is_convex") /\ ret = RetBool(TRUE)) =>
        /\ is_simple(args.vertices)
        /\ NoNonAdjacentEdgesMeet(args.vertices)

====
